---- MODULE Spec2Model ----
(***************************************************************************)
(* Flowchart editor: the canvas interaction state machine (Canvas), the    *)
(* edge geometry (Edge), the shape component's gestures (Node, Annotation) *)
(* and the document commands of the application shell (App).               *)
(*                                                                         *)
(* Numbers.  Coordinates and sizes are whole pixels.  JavaScript's NaN is  *)
(* the position NaNPos: a shape's position is either numeric in both       *)
(* coordinates or NaN in both (the only source of NaN is 0/0 in the splice *)
(* displacement, which hits x and y together).  Every size in the model is *)
(* even, so width / 2 and height / 2 are exact.  Square roots are compared *)
(* through their squares; where the code needs the root itself (the curve  *)
(* offset, the displacement direction) the model takes its integer part,   *)
(* which is exact whenever the two points are aligned on an axis.          *)
(* The label midpoint is kept in sixteenths of a pixel.                    *)
(***************************************************************************)
EXTENDS Integers, Sequences, FiniteSets, TLC

(* ---------------------------------------------------------------------- *)
(* Optional values: undefined / null is <<>>, a present value v is <<v>>.  *)
(* ---------------------------------------------------------------------- *)
None == <<>>
Some(v) == <<v>>
IsSome(o) == o # <<>>
Get(o) == o[1]
OrElse(o, d) == IF o = <<>> THEN d ELSE o[1]

Pos(px, py) == [x |-> px, y |-> py]
NaNPos == [nan |-> TRUE]
IsNaN(p) == p = NaNPos

Abs(n) == IF n < 0 THEN -n ELSE n
Min(a, b) == IF a < b THEN a ELSE b
Max(a, b) == IF a > b THEN a ELSE b

RECURSIVE SqrtIter(_, _, _)
SqrtIter(n, lo, hi) ==
    IF hi - lo <= 1 THEN lo
    ELSE LET mid == (lo + hi) \div 2
         IN  IF mid * mid <= n THEN SqrtIter(n, mid, hi) ELSE SqrtIter(n, lo, mid)
(* Integer part of Math.sqrt(n), n >= 0. *)
ISqrt(n) == SqrtIter(n, 0, 46341)

SeqToSet(s) == {s[i] : i \in DOMAIN s}

(* ---------------------------------------------------------------------- *)
(* Program constants.                                                      *)
(* ---------------------------------------------------------------------- *)
CROWDED_THRESHOLD == 250
SNAP_DISTANCE == 30
SNAP_THRESHOLD == 35
GRID_SIZE == 20
MarqueeThreshold == 5
SpliceGap == 60
DefaultDragWidth == 150
DefaultDragHeight == 70
OffsetMin == 50
OffsetMax == 150
ZoomUnit == 1000

NodeTypes == {"start", "process", "decision", "end"}

defaultDimensions(type) ==
    CASE type = "start" -> [width |-> 150, height |-> 60]
      [] type = "end" -> [width |-> 150, height |-> 60]
      [] type = "process" -> [width |-> 150, height |-> 70]
      [] type = "decision" -> [width |-> 160, height |-> 100]

(* const snap = (val) => Math.round(val / GRID_SIZE) * GRID_SIZE; Math.round     *)
(* rounds halves up.                                                       *)
snap(val) == ((2 * val + GRID_SIZE) \div (2 * GRID_SIZE)) * GRID_SIZE

snapPos(p) == IF IsNaN(p) THEN NaNPos ELSE Pos(snap(p.x), snap(p.y))

AddPos(p, dx, dy) == IF IsNaN(p) THEN NaNPos ELSE Pos(p.x + dx, p.y + dy)

(* ---------------------------------------------------------------------- *)
(* Edge geometry (Edge component's exported helpers).                      *)
(* ---------------------------------------------------------------------- *)

(* Truthiness of an optional number: undefined and 0 are falsy. *)
Truthy(o) == o # <<>> /\ o[1] # 0

(* node.width && node.height ? explicit : defaultDimensions[type] *)
EdgeDims(node) ==
    IF Truthy(node.width) /\ Truthy(node.height)
    THEN [width |-> node.width[1], height |-> node.height[1]]
    ELSE defaultDimensions(node.type)

(* Anchor points, index 1..4 here for the code's 0..3: top, right, bottom, left. *)
getConnectionPoints(node) ==
    LET d == EdgeDims(node)
        p == node.position
    IN  IF IsNaN(p) THEN <<NaNPos, NaNPos, NaNPos, NaNPos>>
        ELSE << Pos(p.x + d.width \div 2, p.y),
                Pos(p.x + d.width, p.y + d.height \div 2),
                Pos(p.x + d.width \div 2, p.y + d.height),
                Pos(p.x, p.y + d.height \div 2) >>

Dist2(a, b) == (a.x - b.x) * (a.x - b.x) + (a.y - b.y) * (a.y - b.y)

(* The 16 pairs in iteration order: source index ascending, then target.   *)
AnchorPairs == { <<si, ti>> : si \in 0..3, ti \in 0..3 }
PairRank(pr) == 4 * pr[1] + pr[2]

(* The k-th pair of anchors in iteration order: source index k div 4,      *)
(* target index k mod 4.                                                    *)
PairAt(sp, tp, k) ==
    [source |-> sp[(k \div 4) + 1], target |-> tp[(k % 4) + 1],
     sourceIndex |-> k \div 4, targetIndex |-> k % 4]

(* A search that lets a later pair of equal distance replace the best. *)
ClosestStepLast(candidate, minDistance, closestPair) ==
    IF minDistance = None \/ Dist2(candidate.source, candidate.target) <= Get(minDistance)
    THEN [pair |-> candidate, minDistance |-> Some(Dist2(candidate.source, candidate.target))]
    ELSE [pair |-> closestPair, minDistance |-> minDistance]

(* One pass of the inner loop body: the candidate replaces the best so far  *)
(* when it is strictly closer. minDistance None is Infinity; distances are  *)
(* compared by their squares.                                               *)
ClosestStep(candidate, minDistance, closestPair) ==
    IF minDistance = None \/ Dist2(candidate.source, candidate.target) < Get(minDistance)
    THEN [pair |-> candidate, minDistance |-> Some(Dist2(candidate.source, candidate.target))]
    ELSE [pair |-> closestPair, minDistance |-> minDistance]

RECURSIVE ClosestFrom(_, _, _, _)
ClosestFrom(sp, tp, k, best) ==
    IF k > 15 THEN best.pair
    ELSE ClosestFrom(sp, tp, k + 1, ClosestStep(PairAt(sp, tp, k), best.minDistance, best.pair))

ClosestOf(sp, tp, skip) ==
    IF skip THEN PairAt(sp, tp, 0)
    ELSE ClosestFrom(sp, tp, 0, [pair |-> PairAt(sp, tp, 0), minDistance |-> None])

(* Edge.getClosestConnection: every pair is skipped when the two shapes are *)
(* one, and no distance is below Infinity when a position is not a number.  *)
getClosestConnection(sourceNode, targetNode) ==
    ClosestOf(getConnectionPoints(sourceNode), getConnectionPoints(targetNode),
              sourceNode.id = targetNode.id
              \/ IsNaN(sourceNode.position) \/ IsNaN(targetNode.position))

getControlDirection(index) ==
    CASE index = 0 -> Pos(0, -1)
      [] index = 1 -> Pos(1, 0)
      [] index = 2 -> Pos(0, 1)
      [] index = 3 -> Pos(-1, 0)
      [] OTHER -> Pos(0, 0)

(* Twice the curve offset: offset = Math.min(150, Math.max(50, dist * 0.5)). *)
Offset2(sourcePos, targetPos) ==
    Min(2 * OffsetMax, Max(2 * OffsetMin, ISqrt(Dist2(sourcePos, targetPos))))

(* Twice a control point's offset from its end point. fromSource tells the *)
(* fallback's sign (c1 leans towards the target, c2 back towards the source). *)
ControlDelta2(index, dx, dy, off2, fromSource) ==
    IF index >= 0 /\ index <= 3
    THEN LET dir == getControlDirection(index) IN Pos(dir.x * off2, dir.y * off2)
    ELSE LET sgn == IF fromSource THEN 1 ELSE -1
         IN  IF Abs(dx) > Abs(dy)
             THEN Pos((IF dx > 0 THEN off2 ELSE -off2) * sgn, 0)
             ELSE Pos(0, (IF dy > 0 THEN off2 ELSE -off2) * sgn)

(* labelPos of getCurvePath, in sixteenths of a pixel:                     *)
(* mid = (s + 3 c1 + 3 c2 + t) / 8 at t = 0.5.                             *)
getCurvePath(sourcePos, sourceIndex, targetPos, targetIndex) ==
    IF IsNaN(sourcePos) \/ IsNaN(targetPos) THEN [labelPos |-> NaNPos]
    ELSE LET dx == targetPos.x - sourcePos.x
             dy == targetPos.y - sourcePos.y
             off2 == Offset2(sourcePos, targetPos)
             d1 == ControlDelta2(sourceIndex, dx, dy, off2, TRUE)
             d2 == ControlDelta2(targetIndex, dx, dy, off2, FALSE)
         IN  [labelPos |->
                Pos(8 * sourcePos.x + 8 * targetPos.x + 3 * (d1.x + d2.x),
                    8 * sourcePos.y + 8 * targetPos.y + 3 * (d1.y + d2.y))]

(* ---------------------------------------------------------------------- *)
(* State.                                                                  *)
(* ---------------------------------------------------------------------- *)
VARIABLES
    nodes,                  \* App: activeProject.nodes (array of NodeData)
    edges,                  \* App: activeProject.edges (array of EdgeData)
    annotations,            \* App: activeProject.annotations
    selectedNodeIds,        \* App: Set<string>
    selectedAnnotationIds,  \* App: Set<string>
    selectedEdgeId,         \* App: string | null
    snapToGrid,             \* App: boolean
    autoConnect,            \* App: boolean
    view,                   \* Canvas: {x, y, zoom}; zoom in thousandths
    isPanning,              \* Canvas
    lastMousePosition,      \* Canvas: client position | null
    connecting,             \* Canvas: {sourceId, sourcePos, label, sourceHandle} | null
    reconnecting,           \* Canvas: {edgeId, handle} | null
    previewLine,            \* Canvas: {start, end, startHandle, endHandle} | null
    snapHandle,             \* Canvas: {nodeId, handleIndex, position} | null
    selectionBox,           \* Canvas: {start, end} | null
    dragInfo,               \* Canvas: drag descriptor | null
    snapTarget,             \* Canvas: {edgeId, sourceNodeId, targetNodeId} | null
    displacedNodeInfo,      \* Canvas: {nodeId, originalPosition} | null
    resizingState,          \* Node / Annotation components: the mounted components' resize descriptors
    contextMenu,            \* App: the id of the shape the context menu is open for | null
    autoSizeMode,           \* Node components: autoSizeModeRef by shape id; a shape without an entry has the value it was mounted with
    pointerDowns,           \* exploration: pointer-down events handled so far
    displacedOrig,          \* history: shapes moved aside by a splice activation and not yet put back, with the position each had before
    history,                \* App: activeProject.history (array of document snapshots)
    historyIndex,           \* App: activeProject.historyIndex
    projects,               \* App: the ids of the projects, in order
    openProjectIds,         \* App: the ids of the open tabs, in order
    activeProjectId,        \* App: string | null
    nodeText,               \* App: the text of the shapes by id; a shape without an entry has the text it was created or imported with
    editText,               \* Node components: the editText state by shape id; a shape without an entry has the text it was created or imported with
    isEditing               \* Node components: the ids of the shapes whose text editor is open

docVars == <<nodes, edges, annotations>>
selVars == <<selectedNodeIds, selectedAnnotationIds, selectedEdgeId>>
historyVars == <<history, historyIndex>>
projectVars == <<projects, openProjectIds, activeProjectId>>
textVars == <<nodeText, editText, isEditing>>
appVars == <<historyVars, projectVars, textVars>>
settingVars == <<snapToGrid, autoConnect, contextMenu, appVars>>
resizeVars == <<resizingState, autoSizeMode>>
connectVars == <<connecting, reconnecting, previewLine, snapHandle>>
dragVars == <<dragInfo, snapTarget, displacedNodeInfo, displacedOrig>>
panVars == <<view, isPanning, lastMousePosition>>
vars == <<nodes, edges, annotations, selectedNodeIds, selectedAnnotationIds, selectedEdgeId,
          snapToGrid, autoConnect, view, isPanning, lastMousePosition, connecting, reconnecting,
          previewLine, snapHandle, selectionBox, dragInfo, snapTarget, displacedNodeInfo,
          resizingState, autoSizeMode, contextMenu, pointerDowns, displacedOrig,
          history, historyIndex, projects, openProjectIds, activeProjectId, nodeText, editText,
          isEditing>>

(* ---------------------------------------------------------------------- *)
(* Bounds of the exploration.                                              *)
(* ---------------------------------------------------------------------- *)
MaxEdges == 4
MaxTime == 2
MaxPan == 0
MaxDowns == 2

(* ---------------------------------------------------------------------- *)
(* Array and Map helpers.                                                  *)
(* ---------------------------------------------------------------------- *)

(* array.find(x => x.id === id): the first match or undefined. *)
Find(s, id) ==
    LET I == {i \in DOMAIN s : s[i].id = id}
    IN  IF I = {} THEN None ELSE Some(s[CHOOSE i \in I : \A j \in I : i <= j])

Ids(s) == {s[i].id : i \in DOMAIN s}

(* prev.map(node => node.id === id ? { ...node, position } : node) *)
updateNodePosition(ns, id, position) ==
    [i \in DOMAIN ns |-> IF ns[i].id = id THEN [ns[i] EXCEPT !.position = position] ELSE ns[i]]

updateAnnotationPosition(as, id, position) ==
    [i \in DOMAIN as |-> IF as[i].id = id THEN [as[i] EXCEPT !.position = position] ELSE as[i]]

(* prev.map(node => node.id === id ? { ...node, ...dimensions } : node) *)
updateNodeDimensions(ns, id, w, h) ==
    [i \in DOMAIN ns |-> IF ns[i].id = id
                         THEN [ns[i] EXCEPT !.width = Some(w), !.height = Some(h)]
                         ELSE ns[i]]

EmptyMap == [k \in {} |-> NaNPos]

(* The Map built by handleItemMouseDown: id -> position of the first element with that id. *)
StartPositions(s, ids) ==
    [k \in (ids \cap Ids(s)) |-> Get(Find(s, k)).position]

(* ---------------------------------------------------------------------- *)
(* Pointer geometry.                                                       *)
(* ---------------------------------------------------------------------- *)

(* The inverse of translate(view.x, view.y) scale(view.zoom). *)
getSVGPoint(v, e) ==
    Pos(((e.clientX - v.x) * ZoomUnit) \div v.zoom, ((e.clientY - v.y) * ZoomUnit) \div v.zoom)

MIN_DIMENSIONS(type) ==
    CASE type = "start" -> [width |-> 150, height |-> 60]
      [] type = "end" -> [width |-> 150, height |-> 60]
      [] type = "process" -> [width |-> 150, height |-> 70]
      [] type = "decision" -> [width |-> 160, height |-> 100]

(* const { width = minWidth, height = minHeight } = data *)
NodeWidth(node) == OrElse(node.width, MIN_DIMENSIONS(node.type).width)
NodeHeight(node) == OrElse(node.height, MIN_DIMENSIONS(node.type).height)

InBox(point, position, w, h) ==
    /\ ~IsNaN(position)
    /\ point.x >= position.x /\ point.x <= position.x + w
    /\ point.y >= position.y /\ point.y <= position.y + h

(* The shape drawn at a point: later elements of the array are drawn on top. *)
RenderedNodeAt(ns, point) ==
    LET I == {i \in DOMAIN ns : InBox(point, ns[i].position, NodeWidth(ns[i]), NodeHeight(ns[i]))}
    IN  IF I = {} THEN None ELSE Some(ns[CHOOSE i \in I : \A j \in I : i >= j])

ANN_MIN_WIDTH == 100
ANN_MIN_HEIGHT == 80

RenderedAnnotationAt(as, point) ==
    LET I == {i \in DOMAIN as : InBox(point, as[i].position,
                                      OrElse(as[i].width, ANN_MIN_WIDTH), OrElse(as[i].height, ANN_MIN_HEIGHT))}
    IN  IF I = {} THEN None ELSE Some(as[CHOOSE i \in I : \A j \in I : i >= j])

(* handleGlobalMouseUp: node.width ?? defaultDimensions[node.type].width, *)
(* and the height likewise.                                              *)
HitSize(node) ==
    [width |-> OrElse(node.width, defaultDimensions(node.type).width),
     height |-> OrElse(node.height, defaultDimensions(node.type).height)]

(* handleGlobalMouseUp: iterate backwards to find the top-most node. *)
TargetNodeAt(ns, point) ==
    LET I == {i \in DOMAIN ns :
                 InBox(point, ns[i].position, HitSize(ns[i]).width, HitSize(ns[i]).height)}
    IN  IF I = {} THEN None ELSE Some(ns[CHOOSE i \in I : \A j \in I : i >= j].id)

(* ---------------------------------------------------------------------- *)
(* The initial state: a saved document on the screen, nothing selected,    *)
(* no gesture in progress.                                                 *)
(* ---------------------------------------------------------------------- *)
NodeRec(id, type, px, py, w, h) ==
    [id |-> id, type |-> type, position |-> Pos(px, py), width |-> Some(w), height |-> Some(h)]

EdgeRec(id, source, target, label, sourceHandle, targetHandle) ==
    [id |-> id, source |-> source, target |-> target, label |-> label,
     sourceHandle |-> sourceHandle, targetHandle |-> targetHandle]

(* `e-${source}-${target}-${time}` *)
EdgeId(source, target, time) == <<"e", source, target, time>>

InitNodes ==
    << NodeRec("A", "process", 0, 0, 150, 70),
       NodeRec("B", "process", 200, 0, 150, 70),
       NodeRec("C", "process", 200, 200, 150, 70),
       NodeRec("D", "process", 0, 300, 150, 70) >>

InitEdges ==
    << EdgeRec(EdgeId("A", "B", 0), "A", "B", None, None, None),
       EdgeRec(EdgeId("B", "C", 0), "B", "C", None, None, None) >>

InitAnnotations ==
    << [id |-> "N1", position |-> Pos(310, 130), width |-> Some(160), height |-> Some(120)] >>

(* What the history effect of App stores: the shapes, with their texts,    *)
(* the edges and the annotations.                                          *)
Snapshot(ns, es, as, texts) == [nodes |-> ns, edges |-> es, annotations |-> as, text |-> texts]

(* The id of the project the editor starts on: project-${Date.now()} at    *)
(* the first load.                                                         *)
FirstProject == <<"project", 0>>

(* The editor at rest on a saved document, with the shapes selected        *)
(* selected.                                                               *)
InitDocument(ns, es, as, selected) ==
    /\ nodes = ns
    /\ edges = es
    /\ annotations = as
    /\ selectedNodeIds = selected
    /\ selectedAnnotationIds = {}
    /\ selectedEdgeId = None
    /\ snapToGrid = TRUE
    /\ autoConnect = TRUE
    /\ view = [x |-> 0, y |-> 0, zoom |-> ZoomUnit]
    /\ isPanning = FALSE
    /\ lastMousePosition = None
    /\ connecting = None
    /\ reconnecting = None
    /\ previewLine = None
    /\ snapHandle = None
    /\ selectionBox = None
    /\ dragInfo = None
    /\ snapTarget = None
    /\ displacedNodeInfo = None
    /\ resizingState = {}
    /\ contextMenu = None
    /\ autoSizeMode = [id \in Ids(ns) |-> Get(Find(ns, id)).width = None]
    /\ pointerDowns = 0
    /\ displacedOrig = EmptyMap
    /\ history = <<Snapshot(ns, es, as, EmptyMap)>>
    /\ historyIndex = 0
    /\ projects = <<FirstProject>>
    /\ openProjectIds = <<FirstProject>>
    /\ activeProjectId = Some(FirstProject)
    /\ nodeText = EmptyMap
    /\ editText = EmptyMap
    /\ isEditing = {}

InitWithSelection(selected) == InitDocument(InitNodes, InitEdges, InitAnnotations, selected)

Init == InitWithSelection({})

(* B and D selected together, as a click on D and a shift-click on B leave *)
(* them.                                                                   *)
InitSelected == InitWithSelection({"A", "B"})

(* ---------------------------------------------------------------------- *)
(* Pointer-down handlers.                                                  *)
(* ---------------------------------------------------------------------- *)

(* Canvas.handleItemMouseDown(e, id, type) *)
handleItemMouseDown(e, id, type) ==
    LET itemIsSelected == IF type = "node" THEN id \in selectedNodeIds
                                           ELSE id \in selectedAnnotationIds
        newSelectedNodes ==
            IF e.shiftKey
            THEN IF type = "node"
                 THEN (IF itemIsSelected THEN selectedNodeIds \ {id} ELSE selectedNodeIds \cup {id})
                 ELSE selectedNodeIds
            ELSE IF ~itemIsSelected
                 THEN (IF type = "node" THEN {id} ELSE {})
                 ELSE selectedNodeIds
        newSelectedAnnotations ==
            IF e.shiftKey
            THEN IF type = "node"
                 THEN selectedAnnotationIds
                 ELSE (IF itemIsSelected THEN selectedAnnotationIds \ {id}
                                         ELSE selectedAnnotationIds \cup {id})
            ELSE IF ~itemIsSelected
                 THEN (IF type = "annotation" THEN {id} ELSE {})
                 ELSE selectedAnnotationIds
    IN  /\ selectedNodeIds' = newSelectedNodes
        /\ selectedAnnotationIds' = newSelectedAnnotations
        /\ selectedEdgeId' = None
        /\ dragInfo' = Some([startMousePos |-> getSVGPoint(view, e),
                             nodeStartPositions |-> StartPositions(nodes, newSelectedNodes),
                             annotationStartPositions |->
                                 StartPositions(annotations, newSelectedAnnotations),
                             primaryDragId |-> id])

(* A press handler that ignores the alt modifier. *)
handleMouseDownNoAlt(e, isNodeTarget, isAnnotationTarget, isEdgeTarget) ==
    IF e.button = 1 \/ (e.button = 2 /\ ~isNodeTarget)
    THEN /\ isPanning' = TRUE
         /\ lastMousePosition' = Some(Pos(e.clientX, e.clientY))
         /\ UNCHANGED <<selVars, selectionBox>>
    ELSE IF ~isNodeTarget /\ ~isAnnotationTarget /\ ~isEdgeTarget
    THEN /\ selectedNodeIds' = (IF e.shiftKey THEN selectedNodeIds ELSE {})
         /\ selectedAnnotationIds' = (IF e.shiftKey THEN selectedAnnotationIds ELSE {})
         /\ selectedEdgeId' = None
         /\ selectionBox' = Some([start |-> getSVGPoint(view, e), end |-> getSVGPoint(view, e)])
         /\ UNCHANGED <<isPanning, lastMousePosition>>
    ELSE UNCHANGED <<selVars, selectionBox, isPanning, lastMousePosition>>

(* Canvas.handleMouseDown(e); the three flags are target.closest(...) of   *)
(* the element under the pointer.                                          *)
handleMouseDown(e, isNodeTarget, isAnnotationTarget, isEdgeTarget) ==
    IF e.button = 1 \/ e.altKey \/ (e.button = 2 /\ ~isNodeTarget)
    THEN /\ isPanning' = TRUE
         /\ lastMousePosition' = Some(Pos(e.clientX, e.clientY))
         /\ UNCHANGED <<selVars, selectionBox>>
    ELSE IF ~isNodeTarget /\ ~isAnnotationTarget /\ ~isEdgeTarget
    THEN /\ selectedNodeIds' = (IF e.shiftKey THEN selectedNodeIds ELSE {})
         /\ selectedAnnotationIds' = (IF e.shiftKey THEN selectedAnnotationIds ELSE {})
         /\ selectedEdgeId' = None
         /\ selectionBox' = Some([start |-> getSVGPoint(view, e), end |-> getSVGPoint(view, e)])
         /\ UNCHANGED <<isPanning, lastMousePosition>>
    ELSE UNCHANGED <<selVars, selectionBox, isPanning, lastMousePosition>>

(* Connection points that carry no label on any shape. *)
nodeConnectionPointUnlabelled(node, index) ==
    [pos |-> CASE index = 0 -> Pos(NodeWidth(node) \div 2, 0)
               [] index = 1 -> Pos(NodeWidth(node), NodeHeight(node) \div 2)
               [] index = 2 -> Pos(NodeWidth(node) \div 2, NodeHeight(node))
               [] index = 3 -> Pos(0, NodeHeight(node) \div 2),
     label |-> None, index |-> index]

(* Node's connection points relative to the shape, with the labels of a decision. *)
nodeConnectionPoint(node, index) ==
    LET w == NodeWidth(node)
        h == NodeHeight(node)
        pos == CASE index = 0 -> Pos(w \div 2, 0)
                 [] index = 1 -> Pos(w, h \div 2)
                 [] index = 2 -> Pos(w \div 2, h)
                 [] index = 3 -> Pos(0, h \div 2)
        label == IF node.type = "decision" /\ index = 1 THEN Some("Sim")
                 ELSE IF node.type = "decision" /\ index = 2 THEN Some("N\\u00e3o")
                 ELSE None
    IN  [pos |-> pos, label |-> label, index |-> index]

ConnectorRadius == 16

(* The pointer is on one of the shape's connector circles (r = 16). *)
OnConnector(node, point) ==
    \E index \in 0..3 :
        LET c == nodeConnectionPoint(node, index).pos
        IN  Dist2(point, AddPos(node.position, c.x, c.y)) <= ConnectorRadius * ConnectorRadius

(* Pointer-down on the body of the top-most shape under the pointer:       *)
(* Node.handleMouseDown.  Button 2 returns early and the event bubbles to  *)
(* the canvas; any other button starts the drag.                           *)
NodeMouseDown(e) ==
    LET hit == RenderedNodeAt(nodes, getSVGPoint(view, e))
    IN  /\ IsSome(hit)
        /\ ~OnConnector(Get(hit), getSVGPoint(view, e))
        /\ IF e.button = 2
           THEN /\ handleMouseDown(e, TRUE, FALSE, FALSE)
                /\ UNCHANGED dragInfo
           ELSE /\ handleItemMouseDown(e, Get(hit).id, "node")
                /\ UNCHANGED <<isPanning, lastMousePosition, selectionBox>>
        /\ UNCHANGED <<docVars, settingVars, view, connectVars, snapTarget, displacedNodeInfo,
                       displacedOrig, resizeVars>>

(* Pointer-down on a note not covered by a shape: Annotation.handleInternalMouseDown. *)
AnnotationMouseDown(e) ==
    LET point == getSVGPoint(view, e)
        hit == RenderedAnnotationAt(annotations, point)
    IN  /\ RenderedNodeAt(nodes, point) = None
        /\ IsSome(hit)
        /\ IF e.button = 2
           THEN /\ handleMouseDown(e, FALSE, TRUE, FALSE)
                /\ UNCHANGED dragInfo
           ELSE /\ handleItemMouseDown(e, Get(hit).id, "annotation")
                /\ UNCHANGED <<isPanning, lastMousePosition, selectionBox>>
        /\ UNCHANGED <<docVars, settingVars, view, connectVars, snapTarget, displacedNodeInfo,
                       displacedOrig, resizeVars>>

(* Pointer-down on the empty canvas. *)
BackgroundMouseDown(e) ==
    LET point == getSVGPoint(view, e)
    IN  /\ RenderedNodeAt(nodes, point) = None
        /\ RenderedAnnotationAt(annotations, point) = None
        /\ handleMouseDown(e, FALSE, FALSE, FALSE)
        /\ UNCHANGED <<docVars, settingVars, view, connectVars, dragVars, resizeVars>>

(* An edge is drawn when it is not hidden as the splice target, not being  *)
(* reconnected, and both its end shapes exist.                             *)
EdgeRendered(edge) ==
    /\ ~(IsSome(snapTarget) /\ Get(snapTarget).edgeId = edge.id)
    /\ ~(IsSome(reconnecting) /\ Get(reconnecting).edgeId = edge.id)
    /\ IsSome(Find(nodes, edge.source))
    /\ IsSome(Find(nodes, edge.target))

(* Pointer-down on an edge's hit path: bubbles to the canvas as an edge target. *)
EdgeMouseDown(e, edgeId) ==
    /\ IsSome(Find(edges, edgeId))
    /\ EdgeRendered(Get(Find(edges, edgeId)))
    /\ handleMouseDown(e, FALSE, FALSE, TRUE)
    /\ UNCHANGED <<docVars, settingVars, view, connectVars, dragVars, resizeVars>>

(* Node.handleConnectorMouseDown -> onInteractionStart, Canvas.startConnecting *)
ConnectorMouseDown(id, index) ==
    LET found == Find(nodes, id)
    IN  /\ IsSome(found)
        /\ ~IsNaN(Get(found).position)
        /\ LET point == nodeConnectionPoint(Get(found), index)
           IN  connecting' = Some([sourceId |-> id,
                                   sourcePos |-> AddPos(Get(found).position, point.pos.x, point.pos.y),
                                   label |-> point.label,
                                   sourceHandle |-> Some(point.index)])
        /\ selectedEdgeId' = None
        /\ selectedAnnotationIds' = {}
        /\ UNCHANGED <<docVars, selectedNodeIds, settingVars, panVars, reconnecting, previewLine,
                       snapHandle, selectionBox, dragVars, resizeVars>>

(* Pointer-down on an end handle of the selected edge: Canvas.startReconnecting *)
EdgeHandleMouseDown(edgeId, handle) ==
    /\ selectedEdgeId = Some(edgeId)
    /\ IsSome(Find(edges, edgeId))
    /\ EdgeRendered(Get(Find(edges, edgeId)))
    /\ reconnecting' = Some([edgeId |-> edgeId, handle |-> handle])
    /\ selectedEdgeId' = Some(edgeId)
    /\ UNCHANGED <<docVars, selectedNodeIds, selectedAnnotationIds, settingVars, panVars,
                   connecting, previewLine, snapHandle, selectionBox, dragVars, resizeVars>>

(* The pointer is on the 10 x 10 resize handle drawn around a corner of a  *)
(* process or decision shape.                                              *)
OnResizeHandle(node, handle, point) ==
    LET cx == IF handle \in {"top-right", "bottom-right"} THEN NodeWidth(node) ELSE 0
        cy == IF handle \in {"bottom-left", "bottom-right"} THEN NodeHeight(node) ELSE 0
    IN  InBox(point, AddPos(node.position, cx - 5, cy - 5), 10, 10)

(* Node.handleResizeMouseDown: the component records its resize descriptor. *)
ResizeMouseDown(e, id, handle) ==
    LET found == Find(nodes, id)
    IN  /\ IsSome(found)
        /\ ~IsNaN(Get(found).position)
        /\ OnResizeHandle(Get(found), handle, getSVGPoint(view, e))
        /\ resizingState' =
              {r \in resizingState : r.id # id} \cup
              {[id |-> id, handle |-> handle,
                startX |-> e.clientX, startY |-> e.clientY,
                startWidth |-> NodeWidth(Get(found)), startHeight |-> NodeHeight(Get(found)),
                startNodeX |-> Get(found).position.x, startNodeY |-> Get(found).position.y]}
        /\ autoSizeMode' = (id :> FALSE) @@ autoSizeMode
        /\ selectedEdgeId' = None
        /\ selectedAnnotationIds' = {}
        /\ UNCHANGED <<docVars, selectedNodeIds, settingVars, panVars, connectVars, selectionBox,
                       dragVars>>

(* ---------------------------------------------------------------------- *)
(* Pointer-move: Canvas.handleMouseMove and the resize listeners.          *)
(* ---------------------------------------------------------------------- *)

(* Round a / b to the nearest whole number, b > 0. *)
DivRound(a, b) == (2 * a + b) \div (2 * b)

(* The connection point the pointer snaps to: the nearest one closer than  *)
(* SNAP_DISTANCE, of any shape but the gesture's own end; the first found  *)
(* wins a tie.                                                             *)
ClosestHandle(currentMousePos) ==
    LET sourceId ==
            IF IsSome(connecting) THEN Some(Get(connecting).sourceId)
            ELSE LET edge == Find(edges, Get(reconnecting).edgeId)
                 IN  IF edge = None THEN None
                     ELSE IF Get(reconnecting).handle = "source"
                          THEN Some(Get(edge).target) ELSE Some(Get(edge).source)
        points == [i \in DOMAIN nodes |-> getConnectionPoints(nodes[i])]
        Cand == {c \in (DOMAIN nodes) \X (0..3) :
                    /\ Some(nodes[c[1]].id) # sourceId
                    /\ ~IsNaN(nodes[c[1]].position)
                    /\ Dist2(points[c[1]][c[2] + 1], currentMousePos)
                          < SNAP_DISTANCE * SNAP_DISTANCE}
        d == [c \in Cand |-> Dist2(points[c[1]][c[2] + 1], currentMousePos)]
    IN  IF Cand = {} THEN None
        ELSE LET best == CHOOSE c \in Cand :
                            \A q \in Cand :
                                d[c] < d[q] \/ (d[c] = d[q] /\ 4 * c[1] + c[2] <= 4 * q[1] + q[2])
             IN  Some([nodeId |-> nodes[best[1]].id, handleIndex |-> best[2],
                       position |-> points[best[1]][best[2] + 1]])

(* The preview line drawn while connecting or reconnecting. *)
NextPreviewLine(currentMousePos, closestHandle) ==
    LET targetPos == IF IsSome(closestHandle) THEN Get(closestHandle).position ELSE currentMousePos
        endHandle == IF IsSome(closestHandle) THEN Some(Get(closestHandle).handleIndex) ELSE None
    IN  IF IsSome(connecting)
        THEN Some([start |-> Get(connecting).sourcePos, end |-> targetPos,
                   startHandle |-> Get(connecting).sourceHandle, endHandle |-> endHandle])
        ELSE LET edge == Find(edges, Get(reconnecting).edgeId)
             IN  IF edge = None THEN previewLine
                 ELSE LET isSourceHandle == Get(reconnecting).handle = "source"
                          fixedNode == Find(nodes, IF isSourceHandle THEN Get(edge).target
                                                                     ELSE Get(edge).source)
                      IN  IF fixedNode = None THEN previewLine
                          ELSE LET fixedPoints == getConnectionPoints(Get(fixedNode))
                                   fixedIndex == IF isSourceHandle
                                                 THEN OrElse(Get(edge).targetHandle, 0)
                                                 ELSE OrElse(Get(edge).sourceHandle, 0)
                                   fixedPos == IF fixedIndex \in 0..3
                                               THEN fixedPoints[fixedIndex + 1] ELSE fixedPoints[1]
                               IN  Some([start |-> fixedPos, end |-> targetPos,
                                         startHandle |-> Some(fixedIndex), endHandle |-> endHandle])

(* Where an edge's label is drawn: the midpoint of its curve between the   *)
(* closest pair of anchors.                                                *)
LabelPos(closest) ==
    getCurvePath(closest.source, closest.sourceIndex,
                 closest.target, closest.targetIndex).labelPos

(* Of the edges with label midpoints labelPos, the index of the one        *)
(* nearest to nodeCenter and closer than SNAP_THRESHOLD (in sixteenths);   *)
(* the first found wins a tie.                                             *)
NearestLabel(nodeCenter, labelPos) ==
    LET Cand == {i \in DOMAIN labelPos :
                    /\ ~IsNaN(labelPos[i])
                    /\ Dist2(nodeCenter, labelPos[i])
                          < (16 * SNAP_THRESHOLD) * (16 * SNAP_THRESHOLD)}
    IN  IF Cand = {} THEN None
        ELSE Some(CHOOSE i \in Cand :
                    \A j \in Cand :
                        \/ Dist2(nodeCenter, labelPos[i]) < Dist2(nodeCenter, labelPos[j])
                        \/ /\ Dist2(nodeCenter, labelPos[i]) = Dist2(nodeCenter, labelPos[j])
                           /\ i <= j)

(* handleSingleNodeDrag: draggedNode.width || 150, draggedNode.height || 70 *)
DragSize(node) ==
    [width |-> IF Truthy(node.width) THEN node.width[1] ELSE DefaultDragWidth,
     height |-> IF Truthy(node.height) THEN node.height[1] ELSE DefaultDragHeight]

(* Index of the edge the dragged shape is over: not one of its own, both   *)
(* ends present, its label midpoint nearest to the shape's centre.         *)
IntersectedEdge(nodeId, draggedNode, newPosition) ==
    LET w == DragSize(draggedNode).width
        h == DragSize(draggedNode).height
        Tried == {i \in DOMAIN edges :
                    /\ edges[i].source # nodeId /\ edges[i].target # nodeId
                    /\ IsSome(Find(nodes, edges[i].source))
                    /\ IsSome(Find(nodes, edges[i].target))}
    IN  IF IsNaN(newPosition) THEN None
        ELSE NearestLabel(Pos(16 * newPosition.x + 8 * w, 16 * newPosition.y + 8 * h),
                          [i \in Tried |->
                              LabelPos(getClosestConnection(Get(Find(nodes, edges[i].source)),
                                                            Get(Find(nodes, edges[i].target))))])

(* Where the target shape of a crowded edge is pushed: along source ->     *)
(* target by half the dragged shape's width plus 60; 0 / 0 when the two    *)
(* shapes coincide.                                                        *)
DisplacedPosition(draggedNode, sourceNode, targetNode) ==
    LET dx == targetNode.position.x - sourceNode.position.x
        dy == targetNode.position.y - sourceNode.position.y
        w == IF Truthy(draggedNode.width) THEN draggedNode.width[1] ELSE DefaultDragWidth
        displacement == w \div 2 + SpliceGap
        dist16 == ISqrt(256 * (dx * dx + dy * dy))
    IN  IF dx = 0 /\ dy = 0 THEN NaNPos
        ELSE Pos(targetNode.position.x + DivRound(16 * dx * displacement, dist16),
                 targetNode.position.y + DivRound(16 * dy * displacement, dist16))

Crowded(sourceNode, targetNode) ==
    /\ ~IsNaN(sourceNode.position) /\ ~IsNaN(targetNode.position)
    /\ Dist2(sourceNode.position, targetNode.position) < CROWDED_THRESHOLD * CROWDED_THRESHOLD

(* Entries of the history whose shape is back where it was (or gone). *)
StillDisplaced(orig, ns) ==
    LET keep == {k \in DOMAIN orig : IsSome(Find(ns, k)) /\ Get(Find(ns, k)).position # orig[k]}
    IN  [k \in keep |-> orig[k]]

(* handleSingleNodeDrag over an edge: the edge becomes the splice target;  *)
(* when it is newly so and its ends are crowded, the target shape is       *)
(* pushed away and its position remembered.                                *)
ActivateSnap(moved, draggedNode, edge, sourceNode, targetNode) ==
    LET activate == snapTarget = None \/ Get(snapTarget).edgeId # edge.id
        displace == activate /\ Crowded(sourceNode, targetNode)
    IN  [nodes |->
            IF displace
            THEN updateNodePosition(moved, targetNode.id,
                     DisplacedPosition(draggedNode, sourceNode, targetNode))
            ELSE moved,
         displacedNodeInfo |->
            IF displace
            THEN Some([nodeId |-> targetNode.id, originalPosition |-> targetNode.position])
            ELSE displacedNodeInfo,
         displacedOrig |->
            IF displace /\ targetNode.id \notin DOMAIN displacedOrig
            THEN [k \in DOMAIN displacedOrig \cup {targetNode.id} |->
                     IF k = targetNode.id THEN targetNode.position ELSE displacedOrig[k]]
            ELSE displacedOrig,
         snapTarget |-> Some([edgeId |-> edge.id,
                              sourceNodeId |-> edge.source,
                              targetNodeId |-> edge.target])]

(* handleSingleNodeDrag over no edge: a splice target is dropped and the   *)
(* remembered shape put back.                                              *)
ReleaseSnap(moved) ==
    LET restore == IsSome(snapTarget) /\ IsSome(displacedNodeInfo)
        restored == IF restore
                    THEN updateNodePosition(moved, Get(displacedNodeInfo).nodeId,
                                            Get(displacedNodeInfo).originalPosition)
                    ELSE moved
    IN  [nodes |-> restored,
         displacedNodeInfo |-> IF restore THEN None ELSE displacedNodeInfo,
         displacedOrig |-> IF restore THEN StillDisplaced(displacedOrig, restored)
                                      ELSE displacedOrig,
         snapTarget |-> None]

SnapOrRelease(moved, draggedNode, intersectedEdge) ==
    IF IsSome(intersectedEdge)
    THEN ActivateSnap(moved, draggedNode, edges[Get(intersectedEdge)],
                      Get(Find(nodes, edges[Get(intersectedEdge)].source)),
                      Get(Find(nodes, edges[Get(intersectedEdge)].target)))
    ELSE ReleaseSnap(moved)

(* Canvas.handleSingleNodeDrag(nodeId, newPosition): the values it leaves  *)
(* in nodes, snapTarget and displacedNodeInfo (and the history).           *)
handleSingleNodeDrag(nodeId, newPosition) ==
    IF Find(nodes, nodeId) = None
    THEN [nodes |-> updateNodePosition(nodes, nodeId, newPosition),
          snapTarget |-> snapTarget,
          displacedNodeInfo |-> displacedNodeInfo, displacedOrig |-> displacedOrig]
    ELSE SnapOrRelease(updateNodePosition(nodes, nodeId, newPosition),
                       Get(Find(nodes, nodeId)),
                       IntersectedEdge(nodeId, Get(Find(nodes, nodeId)), newPosition))

(* The common translation of a multi-selection drag: the primary item's    *)
(* snapped position minus its start when snapping is on, else the raw      *)
(* pointer delta.  nan when the primary item's start is NaN and snapping   *)
(* is on.                                                                  *)
FinalDelta(primaryStart, dx, dy) ==
    IF snapToGrid
    THEN IF IsNaN(primaryStart) THEN NaNPos
         ELSE Pos(snap(primaryStart.x + dx) - primaryStart.x,
                  snap(primaryStart.y + dy) - primaryStart.y)
    ELSE Pos(dx, dy)

Translate(startPos, delta) ==
    IF IsNaN(delta) THEN NaNPos ELSE AddPos(startPos, delta.x, delta.y)

(* currentItems.map(item => start.get(item.id) ? {...item, position: start + delta} : item) *)
TranslateAll(items, starts, delta) ==
    [i \in DOMAIN items |->
        IF items[i].id \in DOMAIN starts
        THEN [items[i] EXCEPT !.position = Translate(starts[items[i].id], delta)]
        ELSE items[i]]

WithClosestHandle(cur, currentMousePos, closestHandle) ==
    [cur EXCEPT !.snapHandle = closestHandle,
                !.previewLine = NextPreviewLine(currentMousePos, closestHandle)]

WithSingleNodeDrag(cur, r) ==
    [cur EXCEPT !.nodes = r.nodes, !.snapTarget = r.snapTarget,
                !.displacedNodeInfo = r.displacedNodeInfo, !.displacedOrig = r.displacedOrig]

(* The values Canvas.handleMouseMove(e) leaves in the state it writes. *)
handleMouseMove(e) ==
    LET cur == [nodes |-> nodes, annotations |-> annotations, view |-> view,
                lastMousePosition |-> lastMousePosition, snapHandle |-> snapHandle,
                previewLine |-> previewLine, snapTarget |-> snapTarget,
                displacedNodeInfo |-> displacedNodeInfo, displacedOrig |-> displacedOrig,
                selectionBox |-> selectionBox]
        currentMousePos == getSVGPoint(view, e)
    IN  IF isPanning /\ IsSome(lastMousePosition)
        THEN [cur EXCEPT !.view = [view EXCEPT !.x = view.x + (e.clientX - Get(lastMousePosition).x),
                                               !.y = view.y + (e.clientY - Get(lastMousePosition).y)],
                         !.lastMousePosition = Some(Pos(e.clientX, e.clientY))]
        ELSE IF IsSome(connecting) \/ IsSome(reconnecting)
        THEN WithClosestHandle(cur, currentMousePos, ClosestHandle(currentMousePos))
        ELSE IF IsSome(dragInfo)
        THEN LET info == Get(dragInfo)
                 dx == currentMousePos.x - info.startMousePos.x
                 dy == currentMousePos.y - info.startMousePos.y
                 totalSelectionSize == Cardinality(DOMAIN info.nodeStartPositions)
                                       + Cardinality(DOMAIN info.annotationStartPositions)
                 primaryStart ==
                     IF info.primaryDragId \in DOMAIN info.nodeStartPositions
                     THEN Some(info.nodeStartPositions[info.primaryDragId])
                     ELSE IF info.primaryDragId \in DOMAIN info.annotationStartPositions
                     THEN Some(info.annotationStartPositions[info.primaryDragId])
                     ELSE None
             IN  IF primaryStart = None THEN cur
                 ELSE IF totalSelectionSize > 1
                 THEN LET delta == FinalDelta(Get(primaryStart), dx, dy)
                      IN  [cur EXCEPT !.nodes = TranslateAll(nodes, info.nodeStartPositions, delta),
                                      !.annotations = TranslateAll(annotations,
                                                          info.annotationStartPositions, delta),
                                      !.snapTarget = None,
                                      !.displacedNodeInfo = None]
                 ELSE LET raw == AddPos(Get(primaryStart), dx, dy)
                          newPosition == IF snapToGrid THEN snapPos(raw) ELSE raw
                      IN  IF info.primaryDragId \in DOMAIN info.nodeStartPositions
                          THEN WithSingleNodeDrag(cur, handleSingleNodeDrag(info.primaryDragId,
                                                                            newPosition))
                          ELSE [cur EXCEPT !.annotations =
                                   updateAnnotationPosition(annotations, info.primaryDragId, newPosition)]
        ELSE IF IsSome(selectionBox)
        THEN [cur EXCEPT !.selectionBox = Some([Get(selectionBox) EXCEPT !.end = currentMousePos])]
        ELSE cur

MAX_WIDTH == 350

(* Node's window mousemove listener while it has a resize descriptor r;    *)
(* data is the shape as the component last rendered it.                    *)
ResizeResult(r, e, data) ==
    LET dx == ((e.clientX - r.startX) * ZoomUnit) \div view.zoom
        dy == ((e.clientY - r.startY) * ZoomUnit) \div view.zoom
        right == r.handle \in {"top-right", "bottom-right"}
        left == r.handle \in {"top-left", "bottom-left"}
        bottom == r.handle \in {"bottom-left", "bottom-right"}
        top == r.handle \in {"top-left", "top-right"}
        minWidth == MIN_DIMENSIONS(data.type).width
        minHeight == MIN_DIMENSIONS(data.type).height
        newWidth == IF left THEN r.startWidth - dx
                    ELSE IF right THEN r.startWidth + dx ELSE r.startWidth
        newHeight == IF top THEN r.startHeight - dy
                     ELSE IF bottom THEN r.startHeight + dy ELSE r.startHeight
        newX == IF left /\ newWidth > MAX_WIDTH THEN r.startNodeX + (r.startWidth - MAX_WIDTH)
                ELSE IF left /\ newWidth < minWidth THEN r.startNodeX + (r.startWidth - minWidth)
                ELSE IF left THEN r.startNodeX + dx ELSE r.startNodeX
        newY == IF top /\ newHeight < minHeight THEN r.startNodeY + (r.startHeight - minHeight)
                ELSE IF top THEN r.startNodeY + dy ELSE r.startNodeY
    IN  [width |-> Min(MAX_WIDTH, Max(minWidth, newWidth)),
         height |-> Max(minHeight, newHeight),
         position |-> Pos(newX, newY),
         moves |-> IsNaN(data.position) \/ newX # data.position.x \/ newY # data.position.y]

(* All mounted resize listeners applied to the array ns. *)
ResizeAll(ns, e) ==
    [i \in DOMAIN ns |->
        IF \E r \in resizingState : r.id = ns[i].id
        THEN LET r == CHOOSE r \in resizingState : r.id = ns[i].id
                 res == ResizeResult(r, e, Get(Find(nodes, ns[i].id)))
             IN  [ns[i] EXCEPT !.width = Some(res.width), !.height = Some(res.height),
                               !.position = IF res.moves THEN res.position ELSE @]
        ELSE ns[i]]

(* One pointer-move event: the canvas handler, then the resize listeners. *)
MouseMove(e) ==
    \E c \in {handleMouseMove(e)} :
        /\ nodes' = ResizeAll(c.nodes, e)
        /\ annotations' = c.annotations
        /\ view' = c.view
        /\ lastMousePosition' = c.lastMousePosition
        /\ snapHandle' = c.snapHandle
        /\ previewLine' = c.previewLine
        /\ snapTarget' = c.snapTarget
        /\ displacedNodeInfo' = c.displacedNodeInfo
        /\ displacedOrig' = c.displacedOrig
        /\ selectionBox' = c.selectionBox
        /\ UNCHANGED <<edges, selVars, settingVars, isPanning, connecting, reconnecting,
                       dragInfo, resizeVars>>

(* ---------------------------------------------------------------------- *)
(* Pointer-up: Canvas.handleGlobalMouseUp -> handleEndInteraction.         *)
(* ---------------------------------------------------------------------- *)

(* The edge array after Canvas.handleSingleNodeDragEnd spliced draggedId in. *)
SpliceEdges(es, target, draggedId, time) ==
    SelectSeq(es, LAMBDA ed : ed.id # target.edgeId)
    \o << EdgeRec(EdgeId(target.sourceNodeId, draggedId, time),
                  target.sourceNodeId, draggedId, None, None, None),
          EdgeRec(EdgeId(draggedId, target.targetNodeId, time + 1),
                  draggedId, target.targetNodeId, None, None, None) >>

(* Canvas.endDrag with handleSingleNodeDragEnd. *)
endDrag(time) ==
    LET same == [edges |-> edges, snapTarget |-> snapTarget,
                 displacedNodeInfo |-> displacedNodeInfo, dragInfo |-> dragInfo,
                 displacedOrig |-> displacedOrig]
    IN  IF dragInfo = None THEN same
        ELSE LET info == Get(dragInfo)
                 totalSelectionSize == Cardinality(DOMAIN info.nodeStartPositions)
                                       + Cardinality(DOMAIN info.annotationStartPositions)
             IN  IF totalSelectionSize = 1 /\ info.primaryDragId \in DOMAIN info.nodeStartPositions
                 THEN IF IsSome(snapTarget)
                      THEN IF Find(nodes, info.primaryDragId) = None
                           THEN [same EXCEPT !.displacedNodeInfo = None, !.dragInfo = None,
                                             !.displacedOrig = EmptyMap]
                           ELSE [edges |-> SpliceEdges(edges, Get(snapTarget), info.primaryDragId, time),
                                 snapTarget |-> None, displacedNodeInfo |-> None,
                                 dragInfo |-> None, displacedOrig |-> EmptyMap]
                      ELSE [same EXCEPT !.snapTarget = None, !.displacedNodeInfo = None,
                                        !.dragInfo = None, !.displacedOrig = EmptyMap]
                 ELSE [same EXCEPT !.snapTarget = None, !.dragInfo = None,
                                   !.displacedOrig = EmptyMap]

(* Canvas.finishConnecting(targetId, targetHandleIndex) applied to the edge array es. *)
finishConnecting(es, targetId, targetHandleIndex, time) ==
    LET c == Get(connecting)
        sourceNode == Find(nodes, c.sourceId)
        targetNode == Find(nodes, targetId)
    IN  IF c.sourceId # targetId /\ IsSome(sourceNode) /\ IsSome(targetNode)
        THEN LET closest == getClosestConnection(Get(sourceNode), Get(targetNode))
                 sourceIndex == IF targetHandleIndex = None /\ c.sourceHandle = None
                                THEN closest.sourceIndex ELSE OrElse(c.sourceHandle, 0)
                 targetIndex == IF targetHandleIndex = None
                                THEN closest.targetIndex ELSE Get(targetHandleIndex)
             IN  Append(es, EdgeRec(EdgeId(c.sourceId, targetId, time), c.sourceId, targetId,
                                    c.label, Some(sourceIndex), Some(targetIndex)))
        ELSE es

(* Canvas.finishReconnecting(targetNodeId, targetHandleIndex) applied to es. *)
finishReconnecting(es, targetNodeId, targetHandleIndex) ==
    LET rc == Get(reconnecting)
        edgeToUpdate == Find(es, rc.edgeId)
    IN  IF edgeToUpdate = None THEN es
        ELSE LET isSourceHandle == rc.handle = "source"
                 fixedNodeId == IF isSourceHandle THEN Get(edgeToUpdate).target
                                                  ELSE Get(edgeToUpdate).source
                 sourceNode == Find(nodes, IF isSourceHandle THEN targetNodeId ELSE fixedNodeId)
                 targetNode == Find(nodes, IF isSourceHandle THEN fixedNodeId ELSE targetNodeId)
             IN  IF fixedNodeId = targetNodeId \/ sourceNode = None \/ targetNode = None THEN es
                 ELSE LET closest == getClosestConnection(Get(sourceNode), Get(targetNode))
                          sourceIndex == IF isSourceHandle
                                         THEN OrElse(targetHandleIndex, closest.sourceIndex)
                                         ELSE OrElse(Get(edgeToUpdate).sourceHandle, 0)
                          targetIndex == IF isSourceHandle
                                         THEN OrElse(Get(edgeToUpdate).targetHandle, 0)
                                         ELSE OrElse(targetHandleIndex, closest.targetIndex)
                      IN  [i \in DOMAIN es |->
                              IF es[i].id = rc.edgeId
                              THEN [es[i] EXCEPT !.source = Get(sourceNode).id,
                                                 !.target = Get(targetNode).id,
                                                 !.sourceHandle = Some(sourceIndex),
                                                 !.targetHandle = Some(targetIndex)]
                              ELSE es[i]]

(* The shapes and notes a marquee adds to the selection. *)
MarqueeNodes(box) ==
    {nodes[i].id : i \in {i \in DOMAIN nodes :
        /\ ~IsNaN(nodes[i].position)
        /\ nodes[i].position.x < Max(box.start.x, box.end.x)
        /\ nodes[i].position.x + (IF Truthy(nodes[i].width) THEN nodes[i].width[1]
                                  ELSE defaultDimensions(nodes[i].type).width)
              > Min(box.start.x, box.end.x)
        /\ nodes[i].position.y < Max(box.start.y, box.end.y)
        /\ nodes[i].position.y + (IF Truthy(nodes[i].height) THEN nodes[i].height[1]
                                  ELSE defaultDimensions(nodes[i].type).height)
              > Min(box.start.y, box.end.y)}}

MarqueeAnnotations(box) ==
    {annotations[i].id : i \in {i \in DOMAIN annotations :
        /\ ~IsNaN(annotations[i].position)
        /\ annotations[i].position.x < Max(box.start.x, box.end.x)
        /\ annotations[i].position.x + (IF Truthy(annotations[i].width)
                                        THEN annotations[i].width[1] ELSE ANN_MIN_WIDTH)
              > Min(box.start.x, box.end.x)
        /\ annotations[i].position.y < Max(box.start.y, box.end.y)
        /\ annotations[i].position.y + (IF Truthy(annotations[i].height)
                                        THEN annotations[i].height[1] ELSE ANN_MIN_HEIGHT)
              > Min(box.start.y, box.end.y)}}

MarqueeBigEnough(box) ==
    \/ Abs(box.start.x - box.end.x) > MarqueeThreshold
    \/ Abs(box.start.y - box.end.y) > MarqueeThreshold

(* One pointer-up event; time is what Date.now() returns.  The canvas listens on the window only while a    *)
(* gesture is in progress; each resizing component's listener clears its   *)
(* descriptor.                                                             *)
MouseUp(e, time) ==
    LET isInteracting == IsSome(connecting) \/ IsSome(reconnecting) \/ IsSome(dragInfo)
                         \/ IsSome(selectionBox) \/ isPanning
        targetNodeId == TargetNodeAt(nodes, getSVGPoint(view, e))
        d == endDrag(time)
        big == IsSome(selectionBox) /\ MarqueeBigEnough(Get(selectionBox))
        resolved == IsSome(snapHandle) \/ IsSome(targetNodeId)
        dropId == IF IsSome(snapHandle) THEN Get(snapHandle).nodeId ELSE Get(targetNodeId)
        dropHandle == IF IsSome(snapHandle) THEN Some(Get(snapHandle).handleIndex) ELSE None
    IN  /\ resizingState' = {}
        /\ UNCHANGED autoSizeMode
        /\ IF isInteracting
           THEN /\ isPanning' = FALSE
                /\ lastMousePosition' = (IF isPanning THEN None ELSE lastMousePosition)
                /\ snapTarget' = d.snapTarget
                /\ displacedNodeInfo' = d.displacedNodeInfo
                /\ displacedOrig' = d.displacedOrig
                /\ dragInfo' = None
                /\ selectedNodeIds' = (IF big THEN selectedNodeIds \cup MarqueeNodes(Get(selectionBox))
                                              ELSE selectedNodeIds)
                /\ selectedAnnotationIds' =
                      (IF big THEN selectedAnnotationIds \cup MarqueeAnnotations(Get(selectionBox))
                              ELSE selectedAnnotationIds)
                /\ selectionBox' = None
                /\ edges' = (IF resolved /\ IsSome(connecting)
                             THEN finishConnecting(d.edges, dropId, dropHandle, time)
                             ELSE IF resolved /\ IsSome(reconnecting)
                             THEN finishReconnecting(d.edges, dropId, dropHandle)
                             ELSE d.edges)
                /\ connecting' = None
                /\ reconnecting' = (IF resolved /\ IsSome(connecting) THEN reconnecting ELSE None)
                /\ previewLine' = (IF resolved /\ connecting = None /\ reconnecting = None
                                   THEN previewLine ELSE None)
                /\ snapHandle' = (IF resolved /\ connecting = None /\ reconnecting = None
                                  THEN snapHandle ELSE None)
           ELSE UNCHANGED <<isPanning, lastMousePosition, dragVars, selectedNodeIds,
                            selectedAnnotationIds, selectionBox, edges, connectVars>>
        /\ UNCHANGED <<nodes, annotations, selectedEdgeId, settingVars, view>>

(* ---------------------------------------------------------------------- *)
(* Document commands of the application shell.                             *)
(* ---------------------------------------------------------------------- *)

(* No pointer gesture is in progress (every mode is off). *)
NoGesture ==
    /\ ~isPanning /\ connecting = None /\ reconnecting = None
    /\ dragInfo = None /\ selectionBox = None /\ resizingState = {}

(* A deletion that forgets the edges of the shape it removes. *)
deleteNodeKeepingEdges(nodeId) ==
    /\ nodes' = SelectSeq(nodes, LAMBDA n : n.id # nodeId)
    /\ edges' = edges
    /\ selectedNodeIds' = selectedNodeIds \ {nodeId}

(* App.deleteNode(nodeId) *)
deleteNode(nodeId) ==
    /\ nodes' = SelectSeq(nodes, LAMBDA n : n.id # nodeId)
    /\ edges' = SelectSeq(edges, LAMBDA ed : ed.source # nodeId /\ ed.target # nodeId)
    /\ selectedNodeIds' = selectedNodeIds \ {nodeId}

(* A click on a shape's delete button. *)
DeleteNodeClick(nodeId) ==
    /\ NoGesture
    /\ IsSome(Find(nodes, nodeId))
    /\ ~IsNaN(Get(Find(nodes, nodeId)).position)
    /\ deleteNode(nodeId)
    /\ contextMenu' = None
    /\ UNCHANGED <<annotations, selectedAnnotationIds, selectedEdgeId, snapToGrid, autoConnect, appVars, panVars,
                   connectVars, selectionBox, dragVars, resizeVars>>

(* App.deleteEdge(edgeId), from the selected edge's delete button. *)
deleteEdge(es, edgeId) == SelectSeq(es, LAMBDA ed : ed.id # edgeId)

DeleteEdgeClick(edgeId) ==
    /\ NoGesture
    /\ selectedEdgeId = Some(edgeId)
    /\ IsSome(Find(edges, edgeId))
    /\ EdgeRendered(Get(Find(edges, edgeId)))
    /\ edges' = deleteEdge(edges, edgeId)
    /\ selectedEdgeId' = None
    /\ UNCHANGED <<nodes, annotations, selectedNodeIds, selectedAnnotationIds, settingVars,
                   panVars, connectVars, selectionBox, dragVars, resizeVars>>

(* A click on an edge: onSelect = setSelectedEdgeId. *)
EdgeClick(edgeId) ==
    /\ NoGesture
    /\ IsSome(Find(edges, edgeId))
    /\ EdgeRendered(Get(Find(edges, edgeId)))
    /\ selectedEdgeId' = Some(edgeId)
    /\ UNCHANGED <<docVars, selectedNodeIds, selectedAnnotationIds, settingVars, panVars,
                   connectVars, selectionBox, dragVars, resizeVars>>

(* The Delete / Backspace key (App's keydown listener, not typing). *)
KeyDelete ==
    /\ nodes' = SelectSeq(nodes, LAMBDA n : n.id \notin selectedNodeIds)
    /\ edges' = SelectSeq(IF IsSome(selectedEdgeId) THEN deleteEdge(edges, Get(selectedEdgeId))
                                                    ELSE edges,
                          LAMBDA ed : ed.source \notin selectedNodeIds
                                      /\ ed.target \notin selectedNodeIds)
    /\ annotations' = SelectSeq(annotations, LAMBDA a : a.id \notin selectedAnnotationIds)
    /\ selectedEdgeId' = None
    /\ selectedNodeIds' = {}
    /\ selectedAnnotationIds' = {}
    /\ resizingState' = {r \in resizingState : r.id \notin selectedNodeIds}
    /\ UNCHANGED autoSizeMode
    /\ UNCHANGED <<settingVars, panVars, connectVars, selectionBox, dragVars>>

(* The grid toggle of the toolbar. *)
ToggleSnapToGrid ==
    /\ NoGesture
    /\ snapToGrid' = ~snapToGrid
    /\ contextMenu' = None
    /\ UNCHANGED <<autoConnect, appVars, docVars, selVars, panVars, connectVars, selectionBox, dragVars,
                   resizeVars>>

(* ---------------------------------------------------------------------- *)
(* The events offered by the exploration.                                  *)
(* ---------------------------------------------------------------------- *)
Ev(px, py, button, shiftKey, altKey) ==
    [clientX |-> px, clientY |-> py, button |-> button, shiftKey |-> shiftKey, altKey |-> altKey]

Points == { <<40, 320>>, <<140, 20>>, <<240, 120>>, <<380, 180>> }

(* The values Date.now() may return. *)
Times == 1..MaxTime

Modifiers == { <<0, FALSE, FALSE>>, <<0, TRUE, FALSE>>, <<2, FALSE, FALSE>> }

DownEvents == { Ev(p[1], p[2], m[1], m[2], m[3]) : p \in Points, m \in Modifiers }
EdgeDownEvents == { Ev(240, 120, m[1], m[2], m[3]) : m \in Modifiers }
PlainEvents == { Ev(p[1], p[2], 0, FALSE, FALSE) : p \in Points }

ConnectorInputs == { <<"A", 1>> }
ResizeInputs == { <<"B", "bottom-right">> }
ResizeEvents == { Ev(350, 70, 0, FALSE, FALSE) }
DeleteInputs == { "B" }
HandleInputs == { "source", "target" }

(* Guards that keep the exploration finite. *)
PanBounded(e) ==
    isPanning /\ IsSome(lastMousePosition)
        => /\ Abs(view.x + e.clientX - Get(lastMousePosition).x) <= MaxPan
           /\ Abs(view.y + e.clientY - Get(lastMousePosition).y) <= MaxPan
EdgesBounded == Len(edges) < MaxEdges

(* A pointer-down is counted; every other event leaves the count alone. *)
CountDown == pointerDowns < MaxDowns /\ pointerDowns' = pointerDowns + 1
NoDown == UNCHANGED pointerDowns

Next ==
    \/ \E e \in DownEvents : CountDown /\ EdgesBounded /\ NodeMouseDown(e)
    \/ \E e \in DownEvents : CountDown /\ AnnotationMouseDown(e)
    \/ \E e \in DownEvents : CountDown /\ BackgroundMouseDown(e)
    \/ \E e \in EdgeDownEvents, edgeId \in Ids(edges) : CountDown /\ EdgeMouseDown(e, edgeId)
    \/ \E c \in ConnectorInputs : CountDown /\ EdgesBounded /\ ConnectorMouseDown(c[1], c[2])
    \/ \E edgeId \in Ids(edges), handle \in HandleInputs :
            CountDown /\ EdgeHandleMouseDown(edgeId, handle)
    \/ \E e \in ResizeEvents, r \in ResizeInputs : CountDown /\ ResizeMouseDown(e, r[1], r[2])
    \/ \E e \in PlainEvents : NoDown /\ PanBounded(e) /\ MouseMove(e)
    \/ \E e \in PlainEvents, time \in Times : NoDown /\ MouseUp(e, time)
    \/ \E nodeId \in DeleteInputs : NoDown /\ DeleteNodeClick(nodeId)
    \/ \E edgeId \in Ids(edges) : NoDown /\ DeleteEdgeClick(edgeId)
    \/ \E edgeId \in Ids(edges) : NoDown /\ EdgeClick(edgeId)
    \/ NoDown /\ KeyDelete
    \/ NoDown /\ ToggleSnapToGrid

Spec == Init /\ [][Next]_vars

(* The same events, from two shapes selected together. *)
SpecSelected == InitSelected /\ [][Next]_vars

(* ---------------------------------------------------------------------- *)
(* Properties.                                                             *)
(* ---------------------------------------------------------------------- *)

(* The interaction modes that are on. *)
ActiveModes ==
    (IF isPanning THEN {"panning"} ELSE {})
    \cup (IF IsSome(dragInfo) THEN {"dragging"} ELSE {})
    \cup (IF IsSome(connecting) THEN {"connecting"} ELSE {})
    \cup (IF IsSome(reconnecting) THEN {"reconnecting"} ELSE {})
    \cup (IF resizingState # {} THEN {"resizing"} ELSE {})
    \cup (IF IsSome(selectionBox) THEN {"marquee"} ELSE {})

(* C1: in every reachable state at most one interaction mode is active     *)
(* among panning, dragging, connecting, reconnecting, resizing and         *)
(* marquee-selecting.                                                      *)
C1_AtMostOneMode == Cardinality(ActiveModes) <= 1

(* C2: after any pointer-up, wherever the pointer is released, every mode  *)
(* is cleared: panning flag, drag, connecting and reconnecting             *)
(* descriptors, marquee box and resize descriptors.                        *)
C2_PointerUpEndsEveryMode ==
    [][(\E e \in PlainEvents, time \in Times : MouseUp(e, time)) => NoGesture']_vars

(* C3: no edge ever has the same shape as its source and its target. *)
C3_NoSelfLoop == \A i \in DOMAIN edges : edges[i].source # edges[i].target

(* C4: the selected shape ids, annotation ids and edge id all refer to     *)
(* entities that exist in the document.                                    *)
C4_SelectionExists ==
    /\ selectedNodeIds \subseteq Ids(nodes)
    /\ selectedAnnotationIds \subseteq Ids(annotations)
    /\ IsSome(selectedEdgeId) => Get(selectedEdgeId) \in Ids(edges)

(* C5: if an edge is selected then no shape and no annotation is selected. *)
C5_EdgeSelectionExclusive ==
    IsSome(selectedEdgeId) => selectedNodeIds = {} /\ selectedAnnotationIds = {}

(* C6: every edge's source id and target id are ids of shapes that exist   *)
(* in the document.                                                        *)
C6_EdgeEndsExist ==
    \A i \in DOMAIN edges : edges[i].source \in Ids(nodes) /\ edges[i].target \in Ids(nodes)

(* The sequence s without the items whose id is in gone. *)
WithoutIds(s, gone) == SelectSeq(s, LAMBDA x : x.id \notin gone)

(* The edges es that touch no shape in gone. *)
NotTouching(es, gone) ==
    SelectSeq(es, LAMBDA ed : ed.source \notin gone /\ ed.target \notin gone)

(* A step that deletes the shapes gone: a click on the delete button of    *)
(* the one shape in it, or the Delete key with gone selected.              *)
DeletesShapes(gone) ==
    \/ \E nodeId \in Ids(nodes) : gone = {nodeId} /\ DeleteNodeClick(nodeId)
    \/ gone = selectedNodeIds /\ gone # {} /\ KeyDelete

(* C7 as stated: deleting shapes, by the delete button or by the Delete    *)
(* key on the selection, removes those shapes and exactly the edges that   *)
(* touch them, takes them out of the selection, and leaves every other     *)
(* shape, every other edge and every annotation unchanged.                 *)
C7_DeleteShapeOnly ==
    [][\A gone \in SUBSET Ids(nodes) :
          DeletesShapes(gone) =>
              /\ nodes' = WithoutIds(nodes, gone)
              /\ edges' = NotTouching(edges, gone)
              /\ selectedNodeIds' \cap gone = {}
              /\ annotations' = annotations]_vars

(* C7 amended: the delete button removes its shape and exactly the edges   *)
(* touching it, takes it out of the selection and leaves all else, the     *)
(* rest of the selection included, unchanged; the Delete key removes every *)
(* selected shape with exactly the edges touching one of them, and also    *)
(* the selected edge and every selected annotation, and empties the        *)
(* selection, leaving all else unchanged.                                  *)
C7_DeleteFrame ==
    [][/\ \A nodeId \in Ids(nodes) :
            DeleteNodeClick(nodeId) =>
                /\ nodes' = WithoutIds(nodes, {nodeId})
                /\ edges' = NotTouching(edges, {nodeId})
                /\ selectedNodeIds' = selectedNodeIds \ {nodeId}
                /\ annotations' = annotations
                /\ selectedAnnotationIds' = selectedAnnotationIds
                /\ selectedEdgeId' = selectedEdgeId
       /\ KeyDelete =>
                /\ nodes' = WithoutIds(nodes, selectedNodeIds)
                /\ edges' = WithoutIds(NotTouching(edges, selectedNodeIds),
                                       SeqToSet(selectedEdgeId))
                /\ annotations' = WithoutIds(annotations, selectedAnnotationIds)
                /\ selectedNodeIds' = {} /\ selectedAnnotationIds' = {}
                /\ selectedEdgeId' = None]_vars

(* The Delete key has removed a selected shape with its selected           *)
(* annotation, and the delete button a shape with both its edges.          *)
C7_Witness ==
    /\ Ids(nodes) = {"A", "C"}
    /\ annotations = << >>
    /\ edges = << >>
    /\ selectedNodeIds = {} /\ selectedAnnotationIds = {}

(* A drag of exactly one shape is in progress. *)
SingleNodeDrag ==
    /\ IsSome(dragInfo)
    /\ DOMAIN Get(dragInfo).nodeStartPositions = {Get(dragInfo).primaryDragId}
    /\ DOMAIN Get(dragInfo).annotationStartPositions = {}

(* C8: a pointer-up that ends a single-shape drag of an existing shape D   *)
(* with splice target E (S -> T) leaves the edges other than E as they     *)
(* were and adds exactly two: S -> D and D -> T, with ids that differ from *)
(* each other and from every id in use before, and with no anchors.        *)
C8_SpliceOnPointerUp ==
    [][(/\ \E e \in PlainEvents, time \in Times : MouseUp(e, time)
        /\ SingleNodeDrag /\ IsSome(snapTarget)
        /\ IsSome(Find(nodes, Get(dragInfo).primaryDragId)))
       => LET target == Get(snapTarget)
              draggedId == Get(dragInfo).primaryDragId
              kept == WithoutIds(edges, {target.edgeId})
              n == Len(kept)
          IN  /\ Len(edges') = n + 2
              /\ SubSeq(edges', 1, n) = kept
              /\ edges'[n + 1].source = target.sourceNodeId
              /\ edges'[n + 1].target = draggedId
              /\ edges'[n + 2].source = draggedId
              /\ edges'[n + 2].target = target.targetNodeId
              /\ edges'[n + 1].id # edges'[n + 2].id
              /\ {edges'[n + 1].id, edges'[n + 2].id} \cap Ids(edges) = {}
              /\ \A i \in {n + 1, n + 2} :
                    edges'[i].sourceHandle = None /\ edges'[i].targetHandle = None]_vars

(* C9: when a pointer-move of a single-shape drag leaves the dragged shape *)
(* over no edge, no splice target is active, every shape that was          *)
(* displaced during the drag is back where it was before, and a pointer-up *)
(* that follows with no other gesture in flight leaves the edges as they   *)
(* are.                                                                    *)
C9_DraggedAwayRestores ==
    [][/\ (/\ \E e \in PlainEvents : MouseMove(e)
           /\ SingleNodeDrag /\ connecting = None /\ reconnecting = None /\ ~isPanning
           /\ IsSome(Find(nodes, Get(dragInfo).primaryDragId))
           /\ snapTarget' = None)
          => displacedOrig' = EmptyMap
       /\ (/\ \E e \in PlainEvents, time \in Times : MouseUp(e, time)
           /\ SingleNodeDrag /\ connecting = None /\ reconnecting = None
           /\ snapTarget = None)
          => edges' = edges]_vars

(* How far each dragged entity still present is from its recorded start. *)
DragOffsets ==
    LET info == Get(dragInfo)
    IN  {IF IsNaN(nodes[i].position) \/ IsNaN(info.nodeStartPositions[nodes[i].id])
         THEN NaNPos
         ELSE Pos(nodes[i].position.x - info.nodeStartPositions[nodes[i].id].x,
                  nodes[i].position.y - info.nodeStartPositions[nodes[i].id].y) :
            i \in {j \in DOMAIN nodes : nodes[j].id \in DOMAIN info.nodeStartPositions}}
        \cup
        {IF IsNaN(annotations[i].position)
            \/ IsNaN(info.annotationStartPositions[annotations[i].id])
         THEN NaNPos
         ELSE Pos(annotations[i].position.x - info.annotationStartPositions[annotations[i].id].x,
                  annotations[i].position.y - info.annotationStartPositions[annotations[i].id].y) :
            i \in {j \in DOMAIN annotations :
                      annotations[j].id \in DOMAIN info.annotationStartPositions}}

(* A drag of two or more entities is in progress. *)
MultiDrag ==
    /\ IsSome(dragInfo)
    /\ Cardinality(DOMAIN Get(dragInfo).nodeStartPositions)
         + Cardinality(DOMAIN Get(dragInfo).annotationStartPositions) > 1

(* C10: after every pointer-move of a drag of two or more entities, every  *)
(* dragged shape and annotation is at its own start position plus one      *)
(* delta common to all of them, with grid snapping on or off.              *)
C10_UniformDelta ==
    [][((\E e \in PlainEvents : MouseMove(e)) /\ MultiDrag)
       => (Cardinality(DragOffsets) <= 1 /\ NaNPos \notin DragOffsets)']_vars

(* The entity a drag was started on, when it is among the dragged ones and *)
(* still in the document: its record, else None.                           *)
PrimaryDragged ==
    IF dragInfo = None THEN None
    ELSE IF Get(dragInfo).primaryDragId \in DOMAIN Get(dragInfo).nodeStartPositions
    THEN Find(nodes, Get(dragInfo).primaryDragId)
    ELSE IF Get(dragInfo).primaryDragId \in DOMAIN Get(dragInfo).annotationStartPositions
    THEN Find(annotations, Get(dragInfo).primaryDragId)
    ELSE None

OnGrid(p) == ~IsNaN(p) /\ p.x % GRID_SIZE = 0 /\ p.y % GRID_SIZE = 0

(* C11: with snap-to-grid on, after every pointer-move of a drag the       *)
(* primary dragged entity's x and y are both multiples of the grid size,   *)
(* dragged alone or as the primary of several.                             *)
C11_PrimaryOnGrid ==
    [][((\E e \in PlainEvents : MouseMove(e)) /\ snapToGrid /\ IsSome(PrimaryDragged))
       => (IsSome(PrimaryDragged) => OnGrid(Get(PrimaryDragged).position))']_vars

(* The shape a reconnect gesture leaves attached: the other end of its edge. *)
FixedNodeId ==
    IF reconnecting = None \/ Find(edges, Get(reconnecting).edgeId) = None THEN None
    ELSE IF Get(reconnecting).handle = "source"
    THEN Some(Get(Find(edges, Get(reconnecting).edgeId)).target)
    ELSE Some(Get(Find(edges, Get(reconnecting).edgeId)).source)

(* A release of a connect or reconnect gesture with no snapped anchor, over *)
(* no shape or over the source (connect) or fixed (reconnect) shape.        *)
ReleasedOffTarget(e) ==
    /\ snapHandle = None
    /\ \/ /\ IsSome(connecting)
          /\ TargetNodeAt(nodes, getSVGPoint(view, e)) \in {None, Some(Get(connecting).sourceId)}
       \/ /\ IsSome(reconnecting)
          /\ TargetNodeAt(nodes, getSVGPoint(view, e)) \in {None, FixedNodeId}

(* C12: a connect or reconnect gesture released with no snapped anchor and  *)
(* over no shape or over the source/fixed shape changes nothing in the      *)
(* document (shapes, edges, every edge's ends, anchors and label) and       *)
(* leaves no gesture in progress.                                           *)
C12_MissedDropChangesNothing ==
    [][\A e \in PlainEvents, time \in Times :
          (MouseUp(e, time) /\ ReleasedOffTarget(e))
          => (nodes' = nodes /\ edges' = edges /\ NoGesture')]_vars

(* ---------------------------------------------------------------------- *)
(* The viewport: wheel zoom and pan.                                       *)
(* ---------------------------------------------------------------------- *)
MinZoom == 200
MaxZoom == 3000

MaxOffset == 240

(* A wheel step that forgets to clamp the zoom. *)
handleWheelUnclamped(v, e) ==
    LET p == getSVGPoint(v, e)
        newZoom == IF e.deltaY < 0 THEN DivRound(v.zoom * 11, 10) ELSE DivRound(v.zoom * 10, 11)
    IN  [zoom |-> newZoom,
         x |-> p.x - DivRound((p.x - v.x) * newZoom, v.zoom),
         y |-> p.y - DivRound((p.y - v.y) * newZoom, v.zoom)]

(* Canvas.handleWheel: the next viewport for a wheel event at a pointer     *)
(* position; zoomFactor 1.1 is 11/10, a negative deltaY zooms in.           *)
handleWheel(v, e) ==
    LET p == getSVGPoint(v, e)
        newZoom == IF e.deltaY < 0 THEN DivRound(v.zoom * 11, 10) ELSE DivRound(v.zoom * 10, 11)
        clampedZoom == Max(MinZoom, Min(newZoom, MaxZoom))
    IN  [zoom |-> clampedZoom,
         x |-> p.x - DivRound((p.x - v.x) * clampedZoom, v.zoom),
         y |-> p.y - DivRound((p.y - v.y) * clampedZoom, v.zoom)]

(* A wheel event over the canvas. *)
Wheel(e) ==
    /\ view' = handleWheel(view, e)
    /\ UNCHANGED <<docVars, selVars, settingVars, isPanning, lastMousePosition, connectVars,
                   selectionBox, dragVars, resizeVars, displacedOrig>>

WheelEv(px, py, deltaY) == [clientX |-> px, clientY |-> py, deltaY |-> deltaY]
WheelPoints == { <<0, 0>>, <<240, 0>> }
WheelEvents == { WheelEv(p[1], p[2], dy) : p \in WheelPoints, dy \in {-100, 100} }
PanPoints == { <<240, 120>>, <<340, 120>> }
PanDownEvents == { Ev(p[1], p[2], 2, FALSE, FALSE) : p \in PanPoints }
PanEvents == { Ev(p[1], p[2], 0, FALSE, FALSE) : p \in PanPoints }

(* Guards that keep the pan offset within MaxOffset. *)
OffsetBounded(v) == Abs(v.x) <= MaxOffset /\ Abs(v.y) <= MaxOffset
PanOffsetBounded(e) ==
    isPanning /\ IsSome(lastMousePosition)
        => OffsetBounded([x |-> view.x + e.clientX - Get(lastMousePosition).x,
                          y |-> view.y + e.clientY - Get(lastMousePosition).y])

(* The events that write the viewport: the wheel, and a pan gesture with    *)
(* the right button from press to release.                                  *)
NextView ==
    \/ \E e \in WheelEvents : NoDown /\ OffsetBounded(handleWheel(view, e)) /\ Wheel(e)
    \/ \E e \in PanDownEvents : NoDown /\ BackgroundMouseDown(e)
    \/ \E e \in PanEvents : NoDown /\ PanOffsetBounded(e) /\ MouseMove(e)
    \/ \E e \in PanEvents, time \in Times : NoDown /\ MouseUp(e, time)

SpecView == Init /\ [][NextView]_vars

(* The screen position of a diagram point, in thousandths of a pixel. *)
ScreenOf(v, p) == [x |-> p.x * v.zoom + v.x * ZoomUnit, y |-> p.y * v.zoom + v.y * ZoomUnit]

(* Two screen positions no further apart than the rounding of the model's   *)
(* whole-pixel arithmetic allows (two pixels).                              *)
SamePixel(s, t) == Abs(s.x - t.x) <= 2 * ZoomUnit /\ Abs(s.y - t.y) <= 2 * ZoomUnit

(* C13: a wheel zoom step, at any pan offset and zoom, keeps the diagram    *)
(* point under the cursor at the same screen position.                      *)
C13_WheelKeepsCursorPoint ==
    [][\A e \in WheelEvents :
          Wheel(e) => SamePixel(ScreenOf(view', getSVGPoint(view, e)),
                                ScreenOf(view, getSVGPoint(view, e)))]_vars

(* The zoom a wheel notch asks for, before clamping: times 1.1 when         *)
(* scrolling up, divided by 1.1 when scrolling down.                        *)
NotchZoom(zoom, e) == IF e.deltaY < 0 THEN DivRound(zoom * 11, 10) ELSE DivRound(zoom * 10, 11)

(* A wheel step at a zoom limit in the direction the limit clamps. *)
AtZoomLimit(e) ==
    \/ view.zoom = MaxZoom /\ e.deltaY < 0
    \/ view.zoom = MinZoom /\ e.deltaY > 0

ZoomInRange == MinZoom <= view.zoom /\ view.zoom <= MaxZoom

(* C14: the zoom always lies in [0.2, 3]; a wheel notch multiplies or       *)
(* divides it by 1.1 before clamping, and a wheel step at a limit in the    *)
(* clamped direction leaves zoom and pan offset unchanged.                  *)
C14_ZoomClamped ==
    /\ []ZoomInRange
    /\ [][\A e \in WheelEvents :
             Wheel(e) => /\ view'.zoom = Max(MinZoom, Min(NotchZoom(view.zoom, e), MaxZoom))
                         /\ AtZoomLimit(e) => view' = view]_vars

(* The zoom is at its upper limit, which only clamping produces, with the   *)
(* canvas panned.                                                           *)
C14_Witness == view.zoom = MaxZoom /\ view.x # 0

(* ---------------------------------------------------------------------- *)
(* Document commands of the application: add a shape, add a child, copy     *)
(* and paste.                                                               *)
(* ---------------------------------------------------------------------- *)
MaxNodes == 6
MaxDocEdges == 5
MaxRand == 1

(* `${type}-${Date.now()}${Math.round(Math.random() * n)}` *)
NodeId(type, time, r) == type \o "-" \o ToString(time) \o ToString(r)

NewNode(id, type, position) ==
    [id |-> id, type |-> type, position |-> position, width |-> None, height |-> None]

(* App.addNode: a new shape of the given type at a random position, snapped *)
(* to the grid when the setting is on.                                      *)
addNode(type, initialPos, time, r) ==
    Append(nodes, NewNode(NodeId(type, time, r), type,
                          IF snapToGrid THEN snapPos(initialPos) ELSE initialPos))

AddNode(type, initialPos, time, r) ==
    /\ nodes' = addNode(type, initialPos, time, r)
    /\ UNCHANGED <<edges, annotations, selVars, settingVars, panVars, connectVars, selectionBox,
                   dragVars, resizeVars>>

(* App.handleAddChild: a shape of the parent's type below the parent, and   *)
(* an edge from the parent to it.                                           *)
AddChild(parentNodeId, time, r) ==
    LET parentNode == Find(nodes, parentNodeId)
    IN  /\ IsSome(parentNode)
        /\ \E parent \in {Get(parentNode)} :
             LET parentHeight == OrElse(parent.height, defaultDimensions(parent.type).height)
                 initialPos == AddPos(parent.position, 0, parentHeight + 80)
                 newId == NodeId(parent.type, time, r)
             IN  /\ nodes' = Append(nodes, NewNode(newId, parent.type,
                                       IF snapToGrid THEN snapPos(initialPos) ELSE initialPos))
                 /\ edges' = Append(edges, EdgeRec(EdgeId(parent.id, newId, time), parent.id, newId,
                                                   None, None, None))
        /\ contextMenu' = None
        /\ UNCHANGED <<annotations, selVars, snapToGrid, autoConnect, appVars, panVars, connectVars,
                       selectionBox, dragVars, resizeVars>>

(* App.handleCopy: what is written to the clipboard for a selection: the    *)
(* selected shapes and the edges with both ends selected.                   *)
handleCopy(ns, es, selected) ==
    [nodes |-> SelectSeq(ns, LAMBDA n : n.id \in selected),
     edges |-> SelectSeq(es, LAMBDA e : e.source \in selected /\ e.target \in selected)]

(* idMap.get(id): the new id of the last clipboard shape with that id. *)
IdMapGet(clipNodes, newIds, id) ==
    LET I == {i \in DOMAIN clipNodes : clipNodes[i].id = id}
    IN  IF I = {} THEN None ELSE Some(newIds[CHOOSE i \in I : \A j \in I : i >= j])

PastedNodes(clipNodes, newIds) ==
    [i \in DOMAIN clipNodes |->
        [clipNodes[i] EXCEPT !.id = newIds[i], !.position = AddPos(clipNodes[i].position, 30, 30)]]

PastedEdges(clip, newIds, time) ==
    LET kept == SelectSeq(clip.edges,
                          LAMBDA e : /\ IsSome(IdMapGet(clip.nodes, newIds, e.source))
                                     /\ IsSome(IdMapGet(clip.nodes, newIds, e.target)))
    IN  [i \in DOMAIN kept |->
            [kept[i] EXCEPT !.id = EdgeId(Get(IdMapGet(clip.nodes, newIds, kept[i].source)),
                                          Get(IdMapGet(clip.nodes, newIds, kept[i].target)), time),
                            !.source = Get(IdMapGet(clip.nodes, newIds, kept[i].source)),
                            !.target = Get(IdMapGet(clip.nodes, newIds, kept[i].target))]]

(* The ids handlePaste gives the clipboard's shapes, for one reading of the *)
(* clock and one random draw per shape.                                     *)
PasteIds(clipNodes, time, rands) == [i \in DOMAIN clipNodes |-> NodeId(clipNodes[i].type, time, rands[i])]

(* App.handlePaste of a clipboard holding copied shapes and edges. *)
handlePaste(clip, time, rands) ==
    /\ Len(clip.nodes) > 0
    /\ nodes' = nodes \o PastedNodes(clip.nodes, PasteIds(clip.nodes, time, rands))
    /\ edges' = edges \o PastedEdges(clip, PasteIds(clip.nodes, time, rands), time)
    /\ selectedNodeIds' = {NodeId(clip.nodes[i].type, time, rands[i]) : i \in DOMAIN clip.nodes}
    /\ selectedEdgeId' = None
    /\ selectedAnnotationIds' = {}

Paste(clip, time, rands) ==
    /\ handlePaste(clip, time, rands)
    /\ UNCHANGED <<annotations, settingVars, panVars, connectVars, selectionBox, dragVars,
                   resizeVars>>

(* A clipboard written by a copy in another document: two shapes and two    *)
(* parallel edges between them.                                             *)
ForeignClipboard ==
    handleCopy(<< NodeRec("X", "process", 400, 0, 150, 70), NodeRec("Y", "decision", 400, 200, 160, 100) >>,
               << EdgeRec(EdgeId("X", "Y", 0), "X", "Y", None, None, None),
                  EdgeRec(EdgeId("X", "Y", 1), "X", "Y", Some("Sim"), None, None) >>,
               {"X", "Y"})

(* What the clipboard may hold: the copy of the current selection, or the   *)
(* copy made elsewhere.                                                     *)
Clipboards == {handleCopy(nodes, edges, selectedNodeIds), ForeignClipboard}

AddTypes == {"process", "decision"}
AddPositions == {Pos(57, 64), Pos(130, 90)}
Rands == 0..MaxRand
DocDownEvents == { Ev(40, 320, 0, FALSE, FALSE), Ev(140, 20, 0, TRUE, FALSE) }
DocMoveEvents == { Ev(140, 20, 0, FALSE, FALSE) }
DocUpEvents == { Ev(40, 320, 0, FALSE, FALSE), Ev(140, 20, 0, FALSE, FALSE) }

NodesBounded(n) == Len(nodes) + n <= MaxNodes
DocEdgesBounded(n) == Len(edges) + n <= MaxDocEdges

(* The events that add shapes and edges to the document. *)
NextDoc ==
    \/ \E type \in AddTypes, p \in AddPositions, time \in Times, r \in Rands :
          NoDown /\ NodesBounded(1) /\ NoGesture /\ AddNode(type, p, time, r)
    \/ \E parentNodeId \in Ids(nodes), time \in Times, r \in Rands :
          NoDown /\ NodesBounded(1) /\ DocEdgesBounded(1) /\ NoGesture /\ AddChild(parentNodeId, time, r)
    \/ \E clip \in Clipboards, time \in Times : \E rands \in [DOMAIN clip.nodes -> Rands] :
          NoDown /\ NodesBounded(Len(clip.nodes)) /\ DocEdgesBounded(Len(clip.edges))
          /\ Paste(clip, time, rands)
    \/ \E c \in ConnectorInputs : CountDown /\ DocEdgesBounded(1) /\ ConnectorMouseDown(c[1], c[2])
    \/ \E e \in DocDownEvents : CountDown /\ DocEdgesBounded(1) /\ NodeMouseDown(e)
    \/ \E e \in DocMoveEvents : NoDown /\ MouseMove(e)
    \/ \E e \in DocUpEvents, time \in Times : NoDown /\ MouseUp(e, time)

SpecDoc == Init /\ [][NextDoc]_vars

DistinctIds(s) == \A i, j \in DOMAIN s : s[i].id = s[j].id => i = j

(* The shapes and edges a paste step appended. *)
Appended(old, new) == {new[i] : i \in (Len(old) + 1)..Len(new)}

(* C15: after any sequence of add-shape, add-child, connect, splice and     *)
(* paste operations all shape ids are pairwise distinct and all edge ids    *)
(* are pairwise distinct; one paste of several shapes and edges, parallel   *)
(* edges included, gives each its own fresh id, and every pasted edge       *)
(* connects two pasted shapes.                                              *)
C15_IdsDistinct ==
    /\ [](DistinctIds(nodes) /\ DistinctIds(edges))
    /\ [][\A clip \in Clipboards, time \in Times : \A rands \in [DOMAIN clip.nodes -> Rands] :
             Paste(clip, time, rands)
             => \A e \in Appended(edges, edges') :
                   /\ e.source \in {n.id : n \in Appended(nodes, nodes')}
                   /\ e.target \in {n.id : n \in Appended(nodes, nodes')}]_vars

(* ---------------------------------------------------------------------- *)
(* Import: JSON values and App.sanitizeFlowchartData.                      *)
(* ---------------------------------------------------------------------- *)

(* JSON values as the parser returns them. A string has a name, by which it *)
(* is compared, and its characters; Huge is a number literal beyond the     *)
(* double range, which JSON.parse reads as Infinity.                        *)
JUndef == [t |-> "undefined"]
JNull == [t |-> "null"]
JNum(n) == [t |-> "number", v |-> n]
JHuge == [t |-> "number", huge |-> TRUE]
JStr(name, chars) == [t |-> "string", v |-> name, chars |-> chars]
JObj(fields) == [t |-> "object", f |-> fields]
JArr(items) == [t |-> "array", items |-> items]

(* Results of number parsing. *)
Fin(n) == [k |-> "finite", v |-> n]
NaN == [k |-> "NaN"]
Infinity == [k |-> "Infinity"]
isFinite(r) == r.k = "finite"

DigitChars == {"0", "1", "2", "3", "4", "5", "6", "7", "8", "9"}
DigitVal(c) ==
    CASE c = "0" -> 0 [] c = "1" -> 1 [] c = "2" -> 2 [] c = "3" -> 3 [] c = "4" -> 4
      [] c = "5" -> 5 [] c = "6" -> 6 [] c = "7" -> 7 [] c = "8" -> 8 [] c = "9" -> 9

(* The value of the longest run of digits that starts at position i, after  *)
(* acc has been read; n counts the digits read.                             *)
RECURSIVE ReadDigits(_, _, _, _)
ReadDigits(chars, i, acc, n) ==
    IF i <= Len(chars) /\ chars[i] \in DigitChars
    THEN ReadDigits(chars, i + 1, 10 * acc + DigitVal(chars[i]), n + 1)
    ELSE [value |-> acc, digits |-> n]

(* Leading blanks are skipped, a sign is read, then digits; what follows    *)
(* the digits is ignored.                                                   *)
RECURSIVE SkipBlanks(_, _)
SkipBlanks(chars, i) == IF i <= Len(chars) /\ chars[i] = " " THEN SkipBlanks(chars, i + 1) ELSE i

ParsePrefix(chars) ==
    LET start == SkipBlanks(chars, 1)
        neg == start <= Len(chars) /\ chars[start] = "-"
        from == IF start <= Len(chars) /\ chars[start] \in {"-", "+"} THEN start + 1 ELSE start
        r == ReadDigits(chars, from, 0, 0)
    IN  IF r.digits = 0 THEN NaN ELSE Fin(IF neg THEN 0 - r.value ELSE r.value)

InfinityChars == <<"I", "n", "f", "i", "n", "i", "t", "y">>

(* parseFloat(value): the argument is converted to a string first. *)
parseFloat(j) ==
    IF j.t = "number" THEN (IF "huge" \in DOMAIN j THEN Infinity ELSE Fin(j.v))
    ELSE IF j.t = "string"
    THEN (IF j.chars = InfinityChars THEN Infinity ELSE ParsePrefix(j.chars))
    ELSE NaN

(* parseInt(value, 10) *)
parseInt(j) ==
    IF j.t = "number" THEN (IF "huge" \in DOMAIN j THEN NaN ELSE Fin(j.v))
    ELSE IF j.t = "string" THEN ParsePrefix(j.chars)
    ELSE NaN

(* object.key, undefined when the value is not an object or lacks the key. *)
Field(j, key) == IF j.t = "object" /\ key \in DOMAIN j.f THEN j.f[key] ELSE JUndef

(* typeof id === 'string' && id.trim() *)
ValidId(j) == j.t = "string" /\ \E i \in DOMAIN j.chars : j.chars[i] # " "

(* Array.isArray(value) ? value : [] *)
ItemsOf(j) == IF j.t = "array" THEN j.items ELSE <<>>

(* value !== undefined ? parse(value) : undefined; None is undefined. *)
OptParse(j, parsed) == IF j = JUndef THEN None ELSE Some(parsed)
OptFinite(o) == o = None \/ isFinite(Get(o))
OptValue(o) == IF o = None THEN None ELSE Some(Get(o).v)

(* position.x and position.y as numbers. *)
ParsedPos(px, py) == IF isFinite(px) /\ isFinite(py) THEN Pos(px.v, py.v) ELSE NaNPos

(* One element of data.nodes: None when it is dropped, else the shape. *)
NodeOf(n) ==
    LET x == parseFloat(Field(Field(n, "position"), "x"))
        y == parseFloat(Field(Field(n, "position"), "y"))
        width == OptParse(Field(n, "width"), parseFloat(Field(n, "width")))
        height == OptParse(Field(n, "height"), parseFloat(Field(n, "height")))
    IN  IF ~isFinite(x) \/ ~isFinite(y) THEN None
        ELSE IF ~OptFinite(width) \/ ~OptFinite(height) THEN None
        ELSE Some([id |-> Field(n, "id").v,
                   type |-> IF Field(n, "type").t = "string" /\ Field(n, "type").v \in NodeTypes
                            THEN Field(n, "type").v ELSE "process",
                   position |-> ParsedPos(x, y),
                   width |-> OptValue(width), height |-> OptValue(height)])

(* An id check that forgets the ids seen so far. *)
NodeSeenNever(n, seen) == ~ValidId(Field(n, "id"))

(* A shape whose id was seen before is dropped even when the earlier one    *)
(* was dropped for its position or size.                                    *)
NodeSeen(n, seen) == ~ValidId(Field(n, "id")) \/ Field(n, "id").v \in seen

(* data.nodes.map(...).filter(n => n !== null), with the ids seen so far. *)
RECURSIVE SanitizeNodes(_, _, _, _)
SanitizeNodes(raw, i, seen, out) ==
    IF i > Len(raw) THEN out
    ELSE IF NodeSeen(raw[i], seen) THEN SanitizeNodes(raw, i + 1, seen, out)
    ELSE SanitizeNodes(raw, i + 1, seen \cup {Field(raw[i], "id").v}, out \o NodeOf(raw[i]))

ValidEnd(j, validNodeIds) == ValidId(j) /\ j.v \in validNodeIds

EdgeOf(e) ==
    LET sourceHandle == OptParse(Field(e, "sourceHandle"), parseInt(Field(e, "sourceHandle")))
        targetHandle == OptParse(Field(e, "targetHandle"), parseInt(Field(e, "targetHandle")))
    IN  IF ~OptFinite(sourceHandle) \/ ~OptFinite(targetHandle) THEN None
        ELSE Some(EdgeRec(Field(e, "id").v, Field(e, "source").v, Field(e, "target").v,
                          IF Field(e, "label").t = "string" THEN Some(Field(e, "label").v) ELSE None,
                          OptValue(sourceHandle), OptValue(targetHandle)))

(* An edge is skipped, without its id being remembered, when the id is not  *)
(* a non-blank string or was seen, or an end is not a kept shape.           *)
EdgeSkipped(e, seen, validNodeIds) ==
    \/ ~ValidId(Field(e, "id")) \/ Field(e, "id").v \in seen
    \/ ~ValidEnd(Field(e, "source"), validNodeIds)
    \/ ~ValidEnd(Field(e, "target"), validNodeIds)

RECURSIVE SanitizeEdges(_, _, _, _, _)
SanitizeEdges(raw, i, seen, validNodeIds, out) ==
    IF i > Len(raw) THEN out
    ELSE IF EdgeSkipped(raw[i], seen, validNodeIds)
    THEN SanitizeEdges(raw, i + 1, seen, validNodeIds, out)
    ELSE SanitizeEdges(raw, i + 1, seen \cup {Field(raw[i], "id").v}, validNodeIds,
                       out \o EdgeOf(raw[i]))

AnnotationOf(a) ==
    LET x == parseFloat(Field(Field(a, "position"), "x"))
        y == parseFloat(Field(Field(a, "position"), "y"))
        width == OptParse(Field(a, "width"), parseFloat(Field(a, "width")))
        height == OptParse(Field(a, "height"), parseFloat(Field(a, "height")))
    IN  IF ~isFinite(x) \/ ~isFinite(y) THEN None
        ELSE IF ~OptFinite(width) \/ ~OptFinite(height) THEN None
        ELSE Some([id |-> Field(a, "id").v, position |-> ParsedPos(x, y),
                   width |-> OptValue(width), height |-> OptValue(height)])

RECURSIVE SanitizeAnnotations(_, _, _, _)
SanitizeAnnotations(raw, i, seen, out) ==
    IF i > Len(raw) THEN out
    ELSE IF NodeSeen(raw[i], seen) THEN SanitizeAnnotations(raw, i + 1, seen, out)
    ELSE SanitizeAnnotations(raw, i + 1, seen \cup {Field(raw[i], "id").v},
                             out \o AnnotationOf(raw[i]))

WithEdges(data, sanitizedNodes) ==
    [nodes |-> sanitizedNodes,
     edges |-> SanitizeEdges(ItemsOf(Field(data, "edges")), 1, {}, Ids(sanitizedNodes), <<>>),
     annotations |-> SanitizeAnnotations(ItemsOf(Field(data, "annotations")), 1, {}, <<>>)]

(* App.sanitizeFlowchartData(data) for an object; anything else throws. *)
sanitizeFlowchartData(data) ==
    WithEdges(data, SanitizeNodes(ItemsOf(Field(data, "nodes")), 1, {}, <<>>))

(* App.handleImportJSON, confirmed by the user: the document is replaced    *)
(* and the selection cleared.                                               *)
Import(data) ==
    /\ data.t = "object"
    /\ \E sanitizedData \in {sanitizeFlowchartData(data)} :
          /\ nodes' = sanitizedData.nodes
          /\ edges' = sanitizedData.edges
          /\ annotations' = sanitizedData.annotations
    /\ selectedNodeIds' = {}
    /\ selectedEdgeId' = None
    /\ selectedAnnotationIds' = {}
    /\ nodeText' = EmptyMap
    /\ history' = <<Snapshot(nodes', edges', annotations', nodeText')>>
    /\ historyIndex' = 0
    /\ editText' = [id \in DOMAIN editText \cap (Ids(nodes) \cap Ids(nodes')) |-> editText[id]]
    /\ isEditing' = isEditing \cap Ids(nodes')
    /\ UNCHANGED <<snapToGrid, autoConnect, contextMenu, projectVars>>
    /\ UNCHANGED <<panVars, connectVars, selectionBox, dragVars, resizeVars>>

(* The files offered to import. *)
MaxItems == 2

IdA == JStr("A", <<"A">>)
IdB == JStr("B", <<"B">>)
IdC == JStr("C", <<"C">>)
BlankString == JStr(" ", <<" ">>)
RawPos(x, y) == JObj([x |-> x, y |-> y])

RawNodes ==
    { JObj([id |-> IdA, type |-> JStr("process", <<>>), position |-> RawPos(JNum(0), JNum(0)),
            width |-> JNum(150), height |-> JNum(70)]),
      JObj([id |-> IdB, type |-> JStr("decision", <<>>), position |-> RawPos(JNum(200), JNum(0))]),
      JObj([id |-> IdA, type |-> JStr("circle", <<>>), position |-> RawPos(JNum(200), JNum(200))]),
      JObj([id |-> IdA, position |-> RawPos(JStr("abc", <<"a", "b", "c">>), JNum(0))]),
      JObj([id |-> IdB, position |-> RawPos(JStr("40px", <<"4", "0", "p", "x">>), JNum(300))]),
      JObj([id |-> IdB, position |-> RawPos(JNum(0), JHuge),
            width |-> JStr("Infinity", InfinityChars)]),
      JObj([id |-> BlankString, position |-> RawPos(JNum(0), JNum(0))]),
      JNull }

RawEdges ==
    { JObj([id |-> JStr("e1", <<"e", "1">>), source |-> IdA, target |-> IdB]),
      JObj([id |-> JStr("e1", <<"e", "1">>), source |-> IdB, target |-> IdA,
            sourceHandle |-> JStr("7", <<"7">>), targetHandle |-> JNum(0 - 1)]),
      JObj([id |-> JStr("e2", <<"e", "2">>), source |-> IdA, target |-> IdB, label |-> JStr("Sim", <<>>),
            sourceHandle |-> JNum(1), targetHandle |-> JStr("2nd", <<"2", "n", "d">>)]),
      JObj([id |-> JStr("e2", <<"e", "2">>), source |-> IdA, target |-> IdC]),
      JObj([id |-> JStr("e3", <<"e", "3">>), source |-> IdB, target |-> IdA,
            sourceHandle |-> JStr("x", <<"x">>)]) }

RawAnnotation == JObj([id |-> JStr("N1", <<"N", "1">>),
                       position |-> RawPos(JStr("310", <<"3", "1", "0">>), JNum(130))])
RawAnnotationLists == { JUndef, JArr(<<RawAnnotation, RawAnnotation>>) }

UpTo(S, n) == UNION {[1..k -> S] : k \in 0..n}

ImportInputs ==
    { JObj([nodes |-> JArr(ns), edges |-> JArr(es), annotations |-> as]) :
        ns \in UpTo(RawNodes, MaxItems), es \in UpTo(RawEdges, MaxItems), as \in RawAnnotationLists }

(* Sidebar: the auto-connect switch. *)
ToggleAutoConnect ==
    /\ NoGesture
    /\ autoConnect' = ~autoConnect
    /\ contextMenu' = None
    /\ UNCHANGED <<snapToGrid, appVars, docVars, selVars, panVars, connectVars, selectionBox, dragVars,
                   resizeVars>>

NextImport ==
    \/ \E data \in ImportInputs : NoDown /\ Import(data)
    \/ NoDown /\ ToggleAutoConnect

SpecImport == Init /\ [][NextImport]_vars

(* C16: the document returned by the import sanitation has pairwise         *)
(* distinct shape ids, edge ids and annotation ids, finite positions and,   *)
(* where present, finite dimensions, and every edge's source and target     *)
(* are ids of shapes of that document.                                      *)
C16_ImportSanitized ==
    /\ DistinctIds(nodes) /\ DistinctIds(edges) /\ DistinctIds(annotations)
    /\ \A i \in DOMAIN nodes :
          /\ ~IsNaN(nodes[i].position)
          /\ \A d \in {nodes[i].width, nodes[i].height} : d = None \/ Get(d) \in Int
    /\ \A i \in DOMAIN annotations :
          /\ ~IsNaN(annotations[i].position)
          /\ \A d \in {annotations[i].width, annotations[i].height} : d = None \/ Get(d) \in Int
    /\ \A i \in DOMAIN edges : edges[i].source \in Ids(nodes) /\ edges[i].target \in Ids(nodes)

(* An imported document that kept one of two shapes with the same id, read  *)
(* a coordinate from a string, and kept an edge between kept shapes.        *)
C16_Witness ==
    /\ Ids(nodes) = {"A", "B"}
    /\ \E i \in DOMAIN nodes : nodes[i].id = "B" /\ nodes[i].position = Pos(40, 300)
    /\ Len(edges) = 1 /\ edges[1].targetHandle = Some(2)
    /\ Len(annotations) = 1

(* ---------------------------------------------------------------------- *)
(* Edge rendering: the anchors an edge is drawn between.                   *)
(* ---------------------------------------------------------------------- *)

(* points[index], undefined (None) outside the array. *)
PointAt(points, index) == IF index \in 0..3 THEN Some(points[index + 1]) ELSE None

(* if (index >= points.length) index = 0 *)
SafeIndex(index) == IF index >= 4 THEN 0 ELSE index

FixedEnds(sourcePoints, targetPoints, sourceIndex, targetIndex) ==
    [source |-> PointAt(sourcePoints, sourceIndex), target |-> PointAt(targetPoints, targetIndex),
     sourceIndex |-> sourceIndex, targetIndex |-> targetIndex]

ClosestEnds(closest) ==
    [source |-> Some(closest.source), target |-> Some(closest.target),
     sourceIndex |-> closest.sourceIndex, targetIndex |-> closest.targetIndex]

(* Edge component: final source and target position and index of an edge    *)
(* whose two shapes exist.                                                  *)
EdgeEnds(edge, sourceNode, targetNode, auto) ==
    IF auto /\ (edge.sourceHandle = None \/ edge.targetHandle = None)
    THEN ClosestEnds(getClosestConnection(sourceNode, targetNode))
    ELSE FixedEnds(getConnectionPoints(sourceNode), getConnectionPoints(targetNode),
                   SafeIndex(OrElse(edge.sourceHandle, 0)), SafeIndex(OrElse(edge.targetHandle, 0)))

(* The edges both of whose shapes are in the document. *)
DrawableEdges == {i \in DOMAIN edges : IsSome(Find(nodes, edges[i].source))
                                       /\ IsSome(Find(nodes, edges[i].target))}

RenderedEnds(i) ==
    EdgeEnds(edges[i], Get(Find(nodes, edges[i].source)), Get(Find(nodes, edges[i].target)),
             autoConnect)

AnchorIndexOk(handle) == handle = None \/ Get(handle) \in 0..3

(* C17: in every reachable state, documents accepted by import included,    *)
(* each edge's source and target anchor index is unset or one of 0..3, so   *)
(* rendering an edge finds a defined anchor point on both shapes.           *)
C17_AnchorIndexInRange ==
    /\ \A i \in DOMAIN edges : AnchorIndexOk(edges[i].sourceHandle) /\ AnchorIndexOk(edges[i].targetHandle)
    /\ \A i \in DrawableEdges : IsSome(RenderedEnds(i).source) /\ IsSome(RenderedEnds(i).target)

(* C18: an edge with an unset source or target anchor index is drawn        *)
(* between the closest anchor pair of its two shapes, whatever the          *)
(* auto-connect setting; fixed anchors are used only when both are set.     *)
C18_UnsetUsesClosest ==
    \A i \in DrawableEdges :
        (edges[i].sourceHandle = None \/ edges[i].targetHandle = None)
        => RenderedEnds(i) = ClosestEnds(getClosestConnection(Get(Find(nodes, edges[i].source)),
                                                              Get(Find(nodes, edges[i].target))))

(* ---------------------------------------------------------------------- *)
(* Shape size: auto-sizing to the text, and the size and type commands of   *)
(* the context menu. The fonts are loaded and no text is being edited.      *)
(* ---------------------------------------------------------------------- *)

(* autoSizeModeRef.current of a shape's component; useRef(data.width ===    *)
(* undefined) is its value since the mount when nothing wrote it.           *)
AutoSizeModeOf(node) ==
    IF node.id \in DOMAIN autoSizeMode THEN autoSizeMode[node.id] ELSE node.width = None

(* What the layout effect measures: the text's natural width and its        *)
(* height once wrapped.                                                     *)
Measures == { [naturalWidth |-> 60, wrappedHeight |-> 30],
              [naturalWidth |-> 200, wrappedHeight |-> 60],
              [naturalWidth |-> 400, wrappedHeight |-> 120] }

PaddingX(type) == IF type = "decision" THEN 40 ELSE 20
PaddingY == 20

CalculatedSize(node, measure) ==
    [width |-> Min(MAX_WIDTH, Max(MIN_DIMENSIONS(node.type).width,
                                  measure.naturalWidth + PaddingX(node.type))),
     height |-> Max(MIN_DIMENSIONS(node.type).height, measure.wrappedHeight + PaddingY)]

(* const { width = minWidth, height = minHeight } = data *)
ShownSize(node) ==
    [width |-> OrElse(node.width, MIN_DIMENSIONS(node.type).width),
     height |-> OrElse(node.height, MIN_DIMENSIONS(node.type).height)]

(* Node: the auto-size layout effect of one shape, for the ref's value at   *)
(* the time it runs: the shapes after it.                                   *)
autoSizeEffect(ns, node, mode, measure) ==
    IF ~mode \/ (\E r \in resizingState : r.id = node.id) THEN ns
    ELSE IF CalculatedSize(node, measure) # ShownSize(node)
    THEN updateNodeDimensions(ns, node.id, CalculatedSize(node, measure).width,
                              CalculatedSize(node, measure).height)
    ELSE ns

SizeFrame == UNCHANGED <<edges, annotations, selVars, snapToGrid, autoConnect, appVars, panVars,
                         connectVars, selectionBox, dragVars, resizingState>>

(* Node.handleContextMenu: the context menu opens for a shape. *)
OpenContextMenu(id) ==
    /\ IsSome(Find(nodes, id))
    /\ contextMenu' = Some(id)
    /\ UNCHANGED <<docVars, selVars, snapToGrid, autoConnect, appVars, panVars, connectVars,
                   selectionBox, dragVars, resizeVars>>


(* The layout effect of a shape runs on new measures: its text was          *)
(* replaced, or the fonts finished loading.                                 *)
TextChange(id, measure) ==
    /\ IsSome(Find(nodes, id))
    /\ \E node \in {Get(Find(nodes, id))} :
          /\ nodes' = autoSizeEffect(nodes, node, AutoSizeModeOf(node), measure)
          /\ autoSizeMode' = (id :> AutoSizeModeOf(node)) @@ autoSizeMode
    /\ UNCHANGED contextMenu
    /\ SizeFrame

(* The context menu's type entry: App.updateNodeType, then the layout       *)
(* effect for the new type.                                                 *)
UpdateNodeType(id, type, measure) ==
    /\ contextMenu = Some(id)
    /\ IsSome(Find(nodes, id))
    /\ \E node \in {[Get(Find(nodes, id)) EXCEPT !.type = type]} :
          /\ nodes' = autoSizeEffect([i \in DOMAIN nodes |-> IF nodes[i].id = id THEN node ELSE nodes[i]],
                                     node, AutoSizeModeOf(node), measure)
          /\ autoSizeMode' = (id :> AutoSizeModeOf(node)) @@ autoSizeMode
    /\ contextMenu' = None
    /\ SizeFrame

(* The shapes after the render that follows a size reset: the layout effect *)
(* runs when the shown size changed, with the ref as it was.                *)
AfterReset(ns, old, node, mode, measure) ==
    IF ShownSize(old) = ShownSize(node) THEN ns ELSE autoSizeEffect(ns, node, mode, measure)

(* The context menu's size entry: App.resetNodeSize, then the effects of    *)
(* the render: the layout effect, and after it the effect on data.width,    *)
(* which sets the ref when the width changed to undefined.                  *)
ResetNodeSize(id, measure) ==
    /\ contextMenu = Some(id)
    /\ IsSome(Find(nodes, id))
    /\ \E old \in {Get(Find(nodes, id))} :
          /\ nodes' = AfterReset([i \in DOMAIN nodes |->
                                    IF nodes[i].id = id
                                    THEN [nodes[i] EXCEPT !.width = None, !.height = None]
                                    ELSE nodes[i]],
                                 old, [old EXCEPT !.width = None, !.height = None],
                                 AutoSizeModeOf(old), measure)
          /\ autoSizeMode' = (id :> (old.width # None \/ AutoSizeModeOf(old))) @@ autoSizeMode
    /\ contextMenu' = None
    /\ SizeFrame

SizeInputs == { "B", "D" }
SizeMoveEvents == { Ev(380, 180, 0, FALSE, FALSE) }

NextSize ==
    \/ \E e \in ResizeEvents, r \in ResizeInputs : NoDown /\ ResizeMouseDown(e, r[1], r[2])
    \/ \E e \in SizeMoveEvents : NoDown /\ MouseMove(e)
    \/ \E e \in SizeMoveEvents, time \in Times : NoDown /\ MouseUp(e, time)
    \/ \E id \in SizeInputs, measure \in Measures : NoDown /\ TextChange(id, measure)
    \/ \E id \in SizeInputs, type \in NodeTypes, measure \in Measures :
          NoDown /\ UpdateNodeType(id, type, measure)
    \/ \E id \in SizeInputs, measure \in Measures : NoDown /\ ResetNodeSize(id, measure)
    \/ \E id \in SizeInputs : NoDown /\ OpenContextMenu(id)

SpecSize == Init /\ [][NextSize]_vars

ModeOfId(id) == AutoSizeModeOf(Get(Find(nodes, id)))
SizeOfId(id) == <<Get(Find(nodes, id)).width, Get(Find(nodes, id)).height>>

(* C19: once a resize gesture has started on a shape, auto-sizing does not  *)
(* change its width or height again, on a text change or a type change,     *)
(* until its size is reset; a reset unsets width and height (auto-sizing    *)
(* may then size the shape anew) and re-enables auto-sizing.                *)
C19_ResizeStopsAutoSize ==
    /\ [][\A e \in ResizeEvents, r \in ResizeInputs :
             ResizeMouseDown(e, r[1], r[2]) => ~ModeOfId(r[1])']_vars
    /\ [][\A id \in SizeInputs :
             (~ModeOfId(id) /\ ~(\E measure \in Measures : ResetNodeSize(id, measure)))
             => /\ ~ModeOfId(id)'
                /\ (\E measure \in Measures, type \in NodeTypes :
                       TextChange(id, measure) \/ UpdateNodeType(id, type, measure))
                   => SizeOfId(id)' = SizeOfId(id)]_vars
    /\ [][\A id \in SizeInputs, measure \in Measures :
             ResetNodeSize(id, measure)
             => /\ ModeOfId(id)'
                /\ \/ SizeOfId(id)' = <<None, None>>
                   \/ SizeOfId(id)' = <<Some(CalculatedSize(Get(Find(nodes, id)), measure).width),
                                        Some(CalculatedSize(Get(Find(nodes, id)), measure).height)>>]_vars

(* ---------------------------------------------------------------------- *)
(* The closest-connection search over the shapes of the document.          *)
(* ---------------------------------------------------------------------- *)
PairDist(sp, tp, q) == Dist2(sp[q[1] + 1], tp[q[2] + 1])

(* c is the first pair, in iteration order, among the pairs of least distance. *)
FirstMinimal(c, sp, tp) ==
    /\ <<c.sourceIndex, c.targetIndex>> \in AnchorPairs
    /\ c.source = sp[c.sourceIndex + 1]
    /\ c.target = tp[c.targetIndex + 1]
    /\ \A q \in AnchorPairs :
          \/ PairDist(sp, tp, <<c.sourceIndex, c.targetIndex>>) < PairDist(sp, tp, q)
          \/ /\ PairDist(sp, tp, <<c.sourceIndex, c.targetIndex>>) = PairDist(sp, tp, q)
             /\ PairRank(<<c.sourceIndex, c.targetIndex>>) <= PairRank(q)

(* A shape with nothing but an id, the position and the size of node. *)
Bare(id, node) ==
    NodeRec(id, "process", node.position.x, node.position.y,
            EdgeDims(node).width, EdgeDims(node).height)

Placed(i, j) ==
    /\ nodes[i].id # nodes[j].id
    /\ ~IsNaN(nodes[i].position)
    /\ ~IsNaN(nodes[j].position)

(* C20: for two shapes with different ids (and positions that are numbers) *)
(* the closest-connection search returns a pair of anchors of least         *)
(* distance among the 16 pairs, the first such pair in iteration order      *)
(* (source index, then target index, ascending), and returns the same for   *)
(* any two shapes with these positions and sizes.                           *)
C20_ClosestIsFirstMinimal ==
    \A i, j \in DOMAIN nodes :
        Placed(i, j)
        => /\ FirstMinimal(getClosestConnection(nodes[i], nodes[j]),
                           getConnectionPoints(nodes[i]), getConnectionPoints(nodes[j]))
           /\ getClosestConnection(nodes[i], nodes[j])
                = getClosestConnection(Bare("s", nodes[i]), Bare("t", nodes[j]))

TiedAtMinimum(c, sp, tp) ==
    \E q \in AnchorPairs :
        /\ q # <<c.sourceIndex, c.targetIndex>>
        /\ PairDist(sp, tp, q) = PairDist(sp, tp, <<c.sourceIndex, c.targetIndex>>)

(* Two shapes with two anchor pairs at the least distance, the source one   *)
(* of a type and a size that a menu command or a resize gave it.            *)
C20_Witness ==
    \E i, j \in DOMAIN nodes :
        /\ Placed(i, j)
        /\ nodes[i].type # "process"
        /\ EdgeDims(nodes[i]) # EdgeDims(InitNodes[i])
        /\ TiedAtMinimum(getClosestConnection(nodes[i], nodes[j]),
                         getConnectionPoints(nodes[i]), getConnectionPoints(nodes[j]))

(* ---------------------------------------------------------------------- *)
(* The curve of a drawn edge: documents of two shapes S and T joined by    *)
(* one edge with both anchors set, T anywhere around S, and drags of the   *)
(* shape under the pointer.                                                *)
(* ---------------------------------------------------------------------- *)
CurveTargets == { <<200, 0>>, <<0, 200>>, <<-75, 0>>, <<75, 0>>, <<0, 75>>, <<0, -75>>, <<0, 0>> }

CurveNodes(p) ==
    << NodeRec("S", "process", 0, 0, 150, 70), NodeRec("T", "process", p[1], p[2], 150, 70) >>

CurveEdges(i, j) == << EdgeRec("e-S-T-0", "S", "T", None, Some(i), Some(j)) >>

InitCurve ==
    \E p \in CurveTargets, i \in 0..3, j \in 0..3 :
        InitDocument(CurveNodes(p), CurveEdges(i, j), << >>, {})

CurveEvents == { Ev(20, 20, 0, FALSE, FALSE), Ev(120, 20, 0, FALSE, FALSE) }

NextCurve ==
    \/ \E e \in CurveEvents : CountDown /\ NodeMouseDown(e)
    \/ \E e \in CurveEvents : NoDown /\ MouseMove(e)
    \/ \E e \in CurveEvents, time \in Times : NoDown /\ MouseUp(e, time)
    \/ NoDown /\ ToggleSnapToGrid

SpecCurve == InitCurve /\ [][NextCurve]_vars

(* The label midpoint of the curve between ends, in sixteenths of a pixel. *)
LabelOfEnds(ends) ==
    getCurvePath(Get(ends.source), ends.sourceIndex, Get(ends.target), ends.targetIndex).labelPos

Sixteenths(p) == Pos(16 * p.x, 16 * p.y)

(* C21: for every edge drawn between anchors (i, j) in 0..3 of two shapes, *)
(* the label midpoint of its curve is neither the source point nor the      *)
(* target point, unless the two points coincide.                            *)
C21_LabelOffEnds ==
    \A k \in DrawableEdges :
        (/\ IsSome(RenderedEnds(k).source) /\ IsSome(RenderedEnds(k).target)
         /\ RenderedEnds(k).sourceIndex \in 0..3 /\ RenderedEnds(k).targetIndex \in 0..3
         /\ Get(RenderedEnds(k).source) # Get(RenderedEnds(k).target))
        => /\ LabelOfEnds(RenderedEnds(k)) # Sixteenths(Get(RenderedEnds(k).source))
           /\ LabelOfEnds(RenderedEnds(k)) # Sixteenths(Get(RenderedEnds(k).target))

(* C22: at no time are two shapes displaced at once, and every displaced    *)
(* shape's original position stays recoverable, that is recorded in the     *)
(* canvas's displacement record, until the shape is restored or the splice  *)
(* is committed; so a change of splice target restores the neighbour        *)
(* displaced for the first target before it displaces another.              *)
C22_OneDisplacedRecoverable ==
    /\ Cardinality(DOMAIN displacedOrig) <= 1
    /\ \A k \in DOMAIN displacedOrig :
          displacedNodeInfo = Some([nodeId |-> k, originalPosition |-> displacedOrig[k]])

(* A drag that never splices: its captured set holds two or more entities, *)
(* or one annotation and no shape.                                          *)
NoSpliceDrag ==
    /\ IsSome(dragInfo)
    /\ \/ MultiDrag
       \/ /\ DOMAIN Get(dragInfo).nodeStartPositions = {}
          /\ Cardinality(DOMAIN Get(dragInfo).annotationStartPositions) = 1

(* No shape outside the captured set of the drag moves in the step. *)
OthersStay ==
    /\ DOMAIN nodes' = DOMAIN nodes
    /\ \A i \in DOMAIN nodes :
          nodes[i].id \notin DOMAIN Get(dragInfo).nodeStartPositions
          => nodes'[i].id = nodes[i].id /\ nodes'[i].position = nodes[i].position

(* C23: the pointer-moves and the pointer-up of a drag whose captured set   *)
(* holds two or more entities, or a single annotation, leave the edges      *)
(* unchanged and move no shape outside the captured set, and after the      *)
(* pointer-up no splice target is active.                                   *)
C23_NoSpliceDragKeepsEdges ==
    [][/\ (NoSpliceDrag /\ \E e \in PlainEvents : MouseMove(e))
          => (edges' = edges /\ OthersStay)
       /\ (NoSpliceDrag /\ \E e \in PlainEvents, time \in Times : MouseUp(e, time))
          => (edges' = edges /\ OthersStay /\ snapTarget' = None)]_vars

(* ---------------------------------------------------------------------- *)
(* Connect and reconnect gestures on a document with a decision shape and  *)
(* two shapes side by side: B's top-left corner lies within the capture    *)
(* radius of A's right anchor.                                             *)
(* ---------------------------------------------------------------------- *)
ConnectNodes ==
    << NodeRec("A", "process", 0, 0, 150, 70),
       NodeRec("B", "process", 170, 20, 150, 70),
       NodeRec("D", "decision", 0, 200, 160, 100) >>

ConnectEdges ==
    << EdgeRec(EdgeId("A", "B", 0), "A", "B", None, None, None),
       EdgeRec(EdgeId("D", "B", 0), "D", "B", Some("Sim"), Some(1), Some(3)) >>

InitConnect == InitDocument(ConnectNodes, ConnectEdges, << >>, {})

(* (172,22) is inside B and 23 from A's right anchor; (165,45) is over no   *)
(* shape, 18 from A's right anchor and 11 from B's left; (160,45) is as far *)
(* from the one as from the other; (245,60) is inside B and near no anchor; *)
(* (80,180) is over no shape and 20 from D's top anchor; (400,300) is near  *)
(* nothing.                                                                 *)
ConnectPoints == { <<172, 22>>, <<165, 45>>, <<160, 45>>, <<245, 60>>, <<80, 180>>, <<400, 300>> }
ConnectEvents == { Ev(p[1], p[2], 0, FALSE, FALSE) : p \in ConnectPoints }
ConnectSources == { <<"D", 0>>, <<"D", 1>>, <<"D", 2>>, <<"A", 2>> }

NextConnect ==
    \/ \E c \in ConnectSources : CountDown /\ EdgesBounded /\ ConnectorMouseDown(c[1], c[2])
    \/ \E edgeId \in Ids(edges), handle \in HandleInputs :
            CountDown /\ EdgeHandleMouseDown(edgeId, handle)
    \/ \E e \in ConnectEvents : NoDown /\ MouseMove(e)
    \/ \E e \in ConnectEvents, time \in Times : NoDown /\ MouseUp(e, time)
    \/ \E edgeId \in Ids(edges) : NoDown /\ EdgeClick(edgeId)
    \/ NoDown /\ KeyDelete

SpecConnect == InitConnect /\ [][NextConnect]_vars

Last(s) == s[Len(s)]

(* The edge just created by a connect gesture runs from the gesture's       *)
(* source to shape targetId, at target anchor targetHandle when one is      *)
(* given.                                                                   *)
ConnectedTo(targetId, targetHandle) ==
    /\ Len(edges') > Len(edges)
    /\ Last(edges').source = Get(connecting).sourceId
    /\ Last(edges').target = targetId
    /\ IsSome(targetHandle) => Last(edges').targetHandle = targetHandle

(* The dragged end of the edge of the reconnect gesture is now on shape     *)
(* targetId, at anchor targetHandle when one is given.                      *)
ReconnectedTo(targetId, targetHandle) ==
    /\ IsSome(Find(edges', Get(reconnecting).edgeId))
    /\ \E ed \in {Get(Find(edges', Get(reconnecting).edgeId))} :
          IF Get(reconnecting).handle = "source"
          THEN ed.source = targetId /\ (IsSome(targetHandle) => ed.sourceHandle = targetHandle)
          ELSE ed.target = targetId /\ (IsSome(targetHandle) => ed.targetHandle = targetHandle)

(* The gesture in flight can end on shape targetId: the shape exists and is *)
(* not the gesture's own shape, which exists too.                           *)
CanConnectTo(targetId) ==
    /\ IsSome(connecting)
    /\ targetId # Get(connecting).sourceId
    /\ {targetId, Get(connecting).sourceId} \subseteq Ids(nodes)
CanReconnectTo(targetId) ==
    /\ IsSome(reconnecting)
    /\ IsSome(FixedNodeId)
    /\ targetId # Get(FixedNodeId)
    /\ {targetId, Get(FixedNodeId)} \subseteq Ids(nodes)

(* C24: a connect or reconnect gesture released while an anchor is snapped  *)
(* is resolved against the snapped anchor's shape and index, wherever the   *)
(* pointer is; the shape under the pointer is used only when no anchor is   *)
(* snapped.                                                                 *)
C24_SnappedAnchorWins ==
    [][\A e \in ConnectEvents, time \in Times :
          MouseUp(e, time)
          => /\ (IsSome(snapHandle) /\ CanConnectTo(Get(snapHandle).nodeId))
                => ConnectedTo(Get(snapHandle).nodeId, Some(Get(snapHandle).handleIndex))
             /\ (IsSome(snapHandle) /\ CanReconnectTo(Get(snapHandle).nodeId))
                => ReconnectedTo(Get(snapHandle).nodeId, Some(Get(snapHandle).handleIndex))
             /\ (snapHandle = None /\ IsSome(TargetNodeAt(nodes, getSVGPoint(view, e)))
                 /\ CanConnectTo(Get(TargetNodeAt(nodes, getSVGPoint(view, e)))))
                => ConnectedTo(Get(TargetNodeAt(nodes, getSVGPoint(view, e))), None)
             /\ (snapHandle = None /\ IsSome(TargetNodeAt(nodes, getSVGPoint(view, e)))
                 /\ CanReconnectTo(Get(TargetNodeAt(nodes, getSVGPoint(view, e)))))
                => ReconnectedTo(Get(TargetNodeAt(nodes, getSVGPoint(view, e))), None)]_vars

(* The shapes a gesture in flight may not snap to: the source shape of a    *)
(* connect gesture, the shape at the fixed end of a reconnect gesture.      *)
OwnShapes ==
    (IF IsSome(connecting) THEN {Get(connecting).sourceId} ELSE {})
    \cup (IF IsSome(reconnecting) /\ IsSome(FixedNodeId) THEN {Get(FixedNodeId)} ELSE {})

(* The anchors (shape index, anchor index) of the other shapes that lie     *)
(* closer than 30 to point p.                                               *)
AnchorsInReach(p) ==
    {c \in (DOMAIN nodes) \X (0..3) :
        /\ nodes[c[1]].id \notin OwnShapes
        /\ Dist2(getConnectionPoints(nodes[c[1]])[c[2] + 1], p) < 30 * 30}

(* C25: after every pointer-move during connecting or reconnecting the      *)
(* snap target is a nearest anchor, closer than 30 to the pointer, of a     *)
(* shape other than the gesture's own, and there is none when no such       *)
(* anchor exists; the preview line ends on the snapped anchor with its      *)
(* index, otherwise on the pointer with no index.                           *)
C25_SnapIsNearestAnchor ==
    [][\A e \in ConnectEvents :
          (MouseMove(e) /\ (IsSome(connecting) \/ IsSome(reconnecting)))
          => \E p \in {getSVGPoint(view, e)} :
               IF AnchorsInReach(p) = {}
               THEN /\ snapHandle' = None
                    /\ IsSome(previewLine')
                    /\ Get(previewLine').end = p
                    /\ Get(previewLine').endHandle = None
               ELSE /\ IsSome(snapHandle')
                    /\ \E c \in AnchorsInReach(p) :
                          /\ Get(snapHandle').nodeId = nodes[c[1]].id
                          /\ Get(snapHandle').handleIndex = c[2]
                          /\ Get(snapHandle').position = getConnectionPoints(nodes[c[1]])[c[2] + 1]
                          /\ \A q \in AnchorsInReach(p) :
                                Dist2(getConnectionPoints(nodes[c[1]])[c[2] + 1], p)
                                   <= Dist2(getConnectionPoints(nodes[q[1]])[q[2] + 1], p)
                    /\ IsSome(previewLine')
                    /\ Get(previewLine').end = Get(snapHandle').position
                    /\ Get(previewLine').endHandle = Some(Get(snapHandle').handleIndex)]_vars

(* The label of anchor index of a shape of the given type: "Sim" on the     *)
(* right of a decision, "Nao" (with tilde) on its bottom, none elsewhere.   *)
AnchorLabel(type, index) ==
    IF type = "decision" /\ index = 1 THEN Some("Sim")
    ELSE IF type = "decision" /\ index = 2 THEN Some("N\\u00e3o")
    ELSE None

(* C26: an edge created by a connect gesture has as source the shape whose  *)
(* connector handle was pressed and as source anchor the index of that      *)
(* handle; its label is "Sim" for the right anchor of a decision, "Nao"     *)
(* (with tilde) for the bottom anchor of a decision and absent otherwise;   *)
(* a decision exposes four anchors of which exactly these two are labelled. *)
(* The gesture is followed through `connecting`: only a press on a          *)
(* connector writes a gesture into it, the press records the pressed shape, *)
(* index and label, and the edge made at release copies them.               *)
C26_ConnectEdgeSource ==
    [][/\ \A c \in ConnectSources :
             ConnectorMouseDown(c[1], c[2])
             => /\ IsSome(connecting')
                /\ Get(connecting').sourceId = c[1]
                /\ Get(connecting').sourceHandle = Some(c[2])
                /\ Get(connecting').label = AnchorLabel(Get(Find(nodes, c[1])).type, c[2])
       /\ (IsSome(connecting') /\ connecting' # connecting)
             => \E c \in ConnectSources : ConnectorMouseDown(c[1], c[2])
       /\ \A e \in ConnectEvents, time \in Times :
             (Len(edges') > Len(edges) /\ MouseUp(e, time))
             => /\ IsSome(connecting)
                /\ Len(edges') = Len(edges) + 1
                /\ Last(edges').source = Get(connecting).sourceId
                /\ Last(edges').sourceHandle = Get(connecting).sourceHandle
                /\ Last(edges').label = Get(connecting).label
                /\ Last(edges').label
                      = AnchorLabel(Get(Find(nodes, Last(edges').source)).type,
                                    Get(Last(edges').sourceHandle))
       /\ \A i \in DOMAIN nodes :
             nodes[i].type = "decision"
             => /\ Len(getConnectionPoints(nodes[i])) = 4
                /\ {k \in 0..3 : IsSome(nodeConnectionPoint(nodes[i], k).label)} = {1, 2}
                /\ \A k \in 0..3 :
                      /\ nodeConnectionPoint(nodes[i], k).index = k
                      /\ AddPos(nodes[i].position, nodeConnectionPoint(nodes[i], k).pos.x,
                                nodeConnectionPoint(nodes[i], k).pos.y)
                            = getConnectionPoints(nodes[i])[k + 1]]_vars

(* Edges made by connect gestures from the right and from the bottom anchor *)
(* of decision D are in the document.                                       *)
C26_Witness ==
    /\ \E i \in DOMAIN edges :
          /\ edges[i].id[4] \in Times
          /\ edges[i].source = "D" /\ edges[i].sourceHandle = Some(1)
          /\ edges[i].label = Some("Sim")
    /\ \E i \in DOMAIN edges :
          /\ edges[i].id[4] \in Times
          /\ edges[i].source = "D" /\ edges[i].sourceHandle = Some(2)
          /\ edges[i].label = Some("N\\u00e3o")

(* The edge with the given id in the sequence es (which holds it). *)
EdgeWithId(es, edgeId) == Get(Find(es, edgeId))

(* C27: a reconnect gesture completed on a shape other than the fixed-end   *)
(* shape changes only the dragged endpoint of that one edge: its id, its    *)
(* label, the fixed endpoint's shape and the fixed endpoint's anchor        *)
(* setting stay as they were, the number of edges is unchanged and every    *)
(* other edge is unchanged. The gesture is completed by the pointer-up that *)
(* changes the edge.                                                        *)
C27_ReconnectMovesOneEnd ==
    [][\A e \in ConnectEvents, time \in Times :
          (/\ IsSome(reconnecting)
           /\ IsSome(Find(edges, Get(reconnecting).edgeId))
           /\ IsSome(Find(edges', Get(reconnecting).edgeId))
           /\ EdgeWithId(edges', Get(reconnecting).edgeId) # EdgeWithId(edges, Get(reconnecting).edgeId)
           /\ MouseUp(e, time))
          => /\ Len(edges') = Len(edges)
             /\ \A i \in DOMAIN edges :
                   /\ edges'[i].id = edges[i].id
                   /\ edges'[i].label = edges[i].label
                   /\ edges[i].id # Get(reconnecting).edgeId => edges'[i] = edges[i]
             /\ \E old \in {EdgeWithId(edges, Get(reconnecting).edgeId)},
                   new \in {EdgeWithId(edges', Get(reconnecting).edgeId)} :
                   IF Get(reconnecting).handle = "source"
                   THEN /\ new.target = old.target
                        /\ new.targetHandle = old.targetHandle
                        /\ new.source # old.target
                   ELSE /\ new.source = old.source
                        /\ new.sourceHandle = old.sourceHandle
                        /\ new.target # old.source]_vars

(* The box of an entity at position p, w wide and h high, overlaps the      *)
(* rectangle spanned by the two corners of the marquee.                     *)
OverlapsMarquee(p, w, h, box) ==
    /\ ~IsNaN(p)
    /\ p.x < Max(box.start.x, box.end.x) /\ p.x + w > Min(box.start.x, box.end.x)
    /\ p.y < Max(box.start.y, box.end.y) /\ p.y + h > Min(box.start.y, box.end.y)

ShapesUnderMarquee ==
    {nodes[i].id : i \in {i \in DOMAIN nodes :
        OverlapsMarquee(nodes[i].position, EdgeDims(nodes[i]).width, EdgeDims(nodes[i]).height,
                        Get(selectionBox))}}

AnnotationsUnderMarquee ==
    {annotations[i].id : i \in {i \in DOMAIN annotations :
        OverlapsMarquee(annotations[i].position,
                        OrElse(annotations[i].width, 100), OrElse(annotations[i].height, 80),
                        Get(selectionBox))}}

(* C28: a pointer-up while marquee-selecting adds to the selection every    *)
(* shape and annotation whose bounding box overlaps the rectangle when the  *)
(* rectangle is wider or higher than 5, changes no selection otherwise, and *)
(* in both cases modifies no shape, edge or annotation.                     *)
C28_MarqueeAddsOverlapped ==
    [][\A e \in PlainEvents, time \in Times :
          (IsSome(selectionBox) /\ MouseUp(e, time))
          => /\ IF \/ Abs(Get(selectionBox).start.x - Get(selectionBox).end.x) > 5
                   \/ Abs(Get(selectionBox).start.y - Get(selectionBox).end.y) > 5
                THEN /\ selectedNodeIds' = selectedNodeIds \cup ShapesUnderMarquee
                     /\ selectedAnnotationIds' = selectedAnnotationIds \cup AnnotationsUnderMarquee
                ELSE /\ selectedNodeIds' = selectedNodeIds
                     /\ selectedAnnotationIds' = selectedAnnotationIds
             /\ nodes' = nodes /\ edges' = edges /\ annotations' = annotations]_vars

(* ---------------------------------------------------------------------- *)
(* Shift-clicks: every pointer-down on a shape or a note has shift held,   *)
(* so a drag in flight was started by a shift pointer-down.                *)
(* ---------------------------------------------------------------------- *)

(* The pointer-downs with shift held (left button). *)
ShiftDownEvents == {e \in DownEvents : e.shiftKey /\ e.button = 0}

NextShift ==
    \/ \E e \in ShiftDownEvents : CountDown /\ NodeMouseDown(e)
    \/ \E e \in ShiftDownEvents : CountDown /\ AnnotationMouseDown(e)
    \/ \E e \in PlainEvents : NoDown /\ PanBounded(e) /\ MouseMove(e)
    \/ \E e \in PlainEvents, time \in Times : NoDown /\ MouseUp(e, time)
    \/ NoDown /\ ToggleSnapToGrid

SpecShift == Init /\ [][NextShift]_vars

(* Where every shape and every annotation is. *)
Positions ==
    << [i \in DOMAIN nodes |-> nodes[i].position],
       [i \in DOMAIN annotations |-> annotations[i].position] >>

(* C29: a pointer-down with shift on a shape or annotation toggles that     *)
(* entity's membership in the selection, keeps every other selected entity  *)
(* selected and starts no drag: the pointer-moves between it and the        *)
(* pointer-up change no entity's position.                                  *)
C29_ShiftDownTogglesOnly ==
    [][/\ \A e \in ShiftDownEvents :
             /\ NodeMouseDown(e)
                => \E id \in {Get(RenderedNodeAt(nodes, getSVGPoint(view, e))).id} :
                     /\ selectedNodeIds' = (IF id \in selectedNodeIds
                                            THEN selectedNodeIds \ {id}
                                            ELSE selectedNodeIds \cup {id})
                     /\ selectedAnnotationIds' = selectedAnnotationIds
             /\ AnnotationMouseDown(e)
                => \E id \in {Get(RenderedAnnotationAt(annotations, getSVGPoint(view, e))).id} :
                     /\ selectedAnnotationIds' = (IF id \in selectedAnnotationIds
                                                  THEN selectedAnnotationIds \ {id}
                                                  ELSE selectedAnnotationIds \cup {id})
                     /\ selectedNodeIds' = selectedNodeIds
       /\ \A m \in PlainEvents : MouseMove(m) => Positions' = Positions]_vars

(* ---------------------------------------------------------------------- *)
(* Plain clicks: every pointer-down has the left button and no modifier,   *)
(* on a document with nothing or with A and B selected.                    *)
(* ---------------------------------------------------------------------- *)

PlainDownEvents == {e \in DownEvents : ~e.shiftKey /\ e.button = 0}

NextPlain ==
    \/ \E e \in PlainDownEvents : CountDown /\ NodeMouseDown(e)
    \/ \E e \in PlainDownEvents : CountDown /\ AnnotationMouseDown(e)
    \/ \E e \in PlainDownEvents : CountDown /\ BackgroundMouseDown(e)
    \/ \E e \in PlainEvents : NoDown /\ PanBounded(e) /\ MouseMove(e)
    \/ \E e \in PlainEvents, time \in Times : NoDown /\ MouseUp(e, time)
    \/ NoDown /\ ToggleSnapToGrid

SpecPlain ==
    /\ \E selected \in {{}, {"A", "B"}} : InitWithSelection(selected)
    /\ [][NextPlain]_vars

(* The shapes and annotations a step moves, other than a shape pushed away  *)
(* from a crowded edge or put back there.                                   *)
MovedShapes ==
    {nodes[i].id : i \in {i \in DOMAIN nodes : nodes'[i].position # nodes[i].position}}
    \ ({Get(displacedNodeInfo).nodeId : x \in {1} \cap {Len(displacedNodeInfo)}}
       \cup {Get(displacedNodeInfo').nodeId : x \in {1} \cap {Len(displacedNodeInfo')}})
MovedAnnotations ==
    {annotations[i].id :
        i \in {i \in DOMAIN annotations : annotations'[i].position # annotations[i].position}}

(* C30: a pointer-down without shift on an entity that is not selected      *)
(* makes the selection exactly that entity, with no selected edge, and the  *)
(* drag that follows moves only it; on an entity that is selected it leaves *)
(* the selection unchanged and the drag that follows moves every selected   *)
(* shape and annotation.                                                    *)
C30_PlainDownSelectsAndDrags ==
    [][/\ \A e \in PlainDownEvents :
             /\ NodeMouseDown(e)
                => \E id \in {Get(RenderedNodeAt(nodes, getSVGPoint(view, e))).id} :
                     IF id \in selectedNodeIds
                     THEN UNCHANGED <<selectedNodeIds, selectedAnnotationIds>>
                     ELSE /\ selectedNodeIds' = {id}
                          /\ selectedAnnotationIds' = {}
                          /\ selectedEdgeId' = None
             /\ AnnotationMouseDown(e)
                => \E id \in {Get(RenderedAnnotationAt(annotations, getSVGPoint(view, e))).id} :
                     IF id \in selectedAnnotationIds
                     THEN UNCHANGED <<selectedNodeIds, selectedAnnotationIds>>
                     ELSE /\ selectedNodeIds' = {}
                          /\ selectedAnnotationIds' = {id}
                          /\ selectedEdgeId' = None
       /\ \A m \in PlainEvents :
             (IsSome(dragInfo) /\ MouseMove(m))
             => /\ MovedShapes \subseteq selectedNodeIds
                /\ MovedAnnotations \subseteq selectedAnnotationIds
                /\ (MovedShapes \cup MovedAnnotations # {})
                   => /\ selectedNodeIds \cap Ids(nodes) \subseteq
                            MovedShapes \cup {nodes[i].id : i \in {i \in DOMAIN nodes :
                                                  nodes'[i].position # nodes[i].position}}
                      /\ selectedAnnotationIds \cap Ids(annotations) \subseteq MovedAnnotations]_vars

(* ---------------------------------------------------------------------- *)
(* Presses on the background with every button and modifier, and the pan   *)
(* or marquee gesture that follows, also while a shape is being dragged.   *)
(* ---------------------------------------------------------------------- *)

BackgroundModifiers ==
    { <<0, FALSE, FALSE>>, <<0, TRUE, FALSE>>, <<1, FALSE, FALSE>>, <<2, FALSE, FALSE>>,
      <<0, FALSE, TRUE>> }
BackgroundDownEvents == { Ev(p[1], p[2], m[1], m[2], m[3]) : p \in Points, m \in BackgroundModifiers }

NextPan ==
    \/ \E e \in BackgroundDownEvents : CountDown /\ BackgroundMouseDown(e)
    \/ \E e \in PlainDownEvents : CountDown /\ NodeMouseDown(e)
    \/ \E e \in PlainEvents : NoDown /\ PanOffsetBounded(e) /\ MouseMove(e)
    \/ \E e \in PlainEvents, time \in Times : NoDown /\ MouseUp(e, time)

SpecPan == InitSelected /\ [][NextPan]_vars

(* The press starts a pan: middle button, alt, or right button. *)
PanPress(e) == e.button = 1 \/ e.altKey \/ e.button = 2

CornerInputs ==
    { <<200, 0, "top-left">>, <<350, 0, "top-right">>,
      <<200, 70, "bottom-left">>, <<350, 70, "bottom-right">> }
ResizeMovePoints == { <<-20, -40>>, <<140, 20>>, <<240, 120>>, <<380, 180>> }
ResizeMoveEvents == { Ev(p[1], p[2], 0, FALSE, FALSE) : p \in ResizeMovePoints }

NextResize ==
    \/ \E c \in CornerInputs :
            CountDown /\ ResizeMouseDown(Ev(c[1], c[2], 0, FALSE, FALSE), "B", c[3])
    \/ \E e \in PlainDownEvents : CountDown /\ NodeMouseDown(e)
    \/ \E e \in ResizeMoveEvents : NoDown /\ MouseMove(e)
    \/ \E e \in ResizeMoveEvents, time \in Times : NoDown /\ MouseUp(e, time)

SpecResize == InitSelected /\ [][NextResize]_vars

(* The shape under resize descriptor r is, after the step, as wide and high *)
(* as the start size and the pointer of event m give, clamped, with the     *)
(* corner opposite the handle where it was at pointer-down.                 *)
ResizedFrom(r, m, before, after) ==
    \E dx \in {((m.clientX - r.startX) * ZoomUnit) \div view.zoom},
       dy \in {((m.clientY - r.startY) * ZoomUnit) \div view.zoom},
       left \in {r.handle \in {"top-left", "bottom-left"}},
       top \in {r.handle \in {"top-left", "top-right"}} :
        /\ after.width = Some(Min(350, Max(MIN_DIMENSIONS(before.type).width,
                                           IF left THEN r.startWidth - dx ELSE r.startWidth + dx)))
        /\ after.height = Some(Max(MIN_DIMENSIONS(before.type).height,
                                   IF top THEN r.startHeight - dy ELSE r.startHeight + dy))
        /\ ~IsNaN(after.position)
        /\ IF left THEN after.position.x + Get(after.width) = r.startNodeX + r.startWidth
                   ELSE after.position.x = r.startNodeX
        /\ IF top THEN after.position.y + Get(after.height) = r.startNodeY + r.startHeight
                  ELSE after.position.y = r.startNodeY

(* C32: during a resize gesture, for every pointer position, the corner     *)
(* opposite the dragged handle stays where it was at pointer-down, also     *)
(* when the size is clamped, and the resulting size and position depend     *)
(* only on the start geometry and the current pointer position.             *)
C32_ResizeKeepsOppositeCorner ==
    [][\A m \in ResizeMoveEvents :
          (resizingState # {} /\ MouseMove(m))
          => \A r \in resizingState : \A i \in DOMAIN nodes :
                nodes[i].id = r.id => ResizedFrom(r, m, nodes[i], nodes'[i])]_vars

(* C33: whenever no interaction mode is active no gesture data remains:     *)
(* there is no splice target, no remembered displaced shape, no snapped     *)
(* anchor and no preview line, also when the dragged shape was deleted      *)
(* before the pointer was released.                                         *)
C33_IdleKeepsNoGestureData ==
    ActiveModes = {}
    => /\ snapTarget = None
       /\ displacedNodeInfo = None
       /\ snapHandle = None
       /\ previewLine = None

(* ---------------------------------------------------------------------- *)
(* Clicks: presses on shapes, moves, releases and the Delete key, where    *)
(* the last press of a behaviour is followed by no pointer-move.           *)
(* ---------------------------------------------------------------------- *)

(* A press can still follow: the pointer may move. *)
BeforeLastPress == pointerDowns < MaxDowns

NextClick ==
    \/ \E e \in PlainDownEvents : CountDown /\ NodeMouseDown(e)
    \/ \E e \in PlainEvents : NoDown /\ BeforeLastPress /\ PanBounded(e) /\ MouseMove(e)
    \/ \E e \in PlainEvents, time \in Times : NoDown /\ MouseUp(e, time)
    \/ NoDown /\ KeyDelete

SpecClick == Init /\ [][NextClick]_vars

(* C34: a pointer-down on a shape followed by a pointer-up with no          *)
(* pointer-move in between never changes the edge set or any shape's        *)
(* position, whatever happened before it. The press itself writes neither;  *)
(* the release of the last press, which no move follows, is the release of  *)
(* a click.                                                                 *)
C34_ClickChangesNothing ==
    [][/\ \A e \in PlainDownEvents :
             NodeMouseDown(e) => edges' = edges /\ nodes' = nodes
       /\ \A e \in PlainEvents, time \in Times :
             (pointerDowns = MaxDowns /\ IsSome(dragInfo) /\ MouseUp(e, time))
             => /\ edges' = edges
                /\ [i \in DOMAIN nodes' |-> nodes'[i].position]
                      = [i \in DOMAIN nodes |-> nodes[i].position]]_vars

(* ---------------------------------------------------------------------- *)
(* The undo history of the active project.                                 *)
(* ---------------------------------------------------------------------- *)
MaxHistory == 3

(* The active project as the history code reads it: historyIndex counts    *)
(* from 0, as in the source.                                               *)
ProjectRec(h, index, ns, es, as, texts) ==
    [history |-> h, historyIndex |-> index, nodes |-> ns, edges |-> es, annotations |-> as,
     text |-> texts]

Project == ProjectRec(history, historyIndex, nodes, edges, annotations, nodeText)

(* currentState of the history effect *)
CurrentState == Snapshot(nodes, edges, annotations, nodeText)

(* p.history[index] *)
HistoryAt(p, index) == p.history[index + 1]

(* { ...p, ...state, historyIndex: newIndex } *)
Restored(p, newIndex) ==
    [p EXCEPT !.nodes = HistoryAt(p, newIndex).nodes, !.edges = HistoryAt(p, newIndex).edges,
              !.annotations = HistoryAt(p, newIndex).annotations,
              !.text = HistoryAt(p, newIndex).text, !.historyIndex = newIndex]

(* App.handleUndo *)
handleUndo(p) == IF p.historyIndex <= 0 THEN p ELSE Restored(p, p.historyIndex - 1)

(* App.handleRedo *)
handleRedo(p) ==
    IF p.historyIndex >= Len(p.history) - 1 THEN p ELSE Restored(p, p.historyIndex + 1)

(* A recording that keeps the snapshots after historyIndex. *)
recordKeepingRedo(p, currentState) ==
    [p EXCEPT !.history = Append(p.history, currentState), !.historyIndex = Len(p.history)]

(* The project update of the history effect's timer callback. *)
record(p, currentState) ==
    [p EXCEPT !.history = Append(SubSeq(p.history, 1, p.historyIndex + 1), currentState),
              !.historyIndex = p.historyIndex + 1]

(* The text given to a shape when it is created or imported. *)
GivenText == "given"

TextIn(texts, id) == IF id \in DOMAIN texts THEN texts[id] ELSE GivenText

(* The entries of a per-shape component state for the shapes that stay     *)
(* mounted from ns to newNodes.                                            *)
Kept(m, ns, newNodes) == [id \in (DOMAIN m \cap Ids(ns)) \cap Ids(newNodes) |-> m[id]]

(* The render after the active project's document was replaced by p's:     *)
(* shapes that left the document unmount.                                  *)
ShowProject(p) ==
    /\ nodes' = p.nodes
    /\ edges' = p.edges
    /\ annotations' = p.annotations
    /\ nodeText' = p.text
    /\ history' = p.history
    /\ historyIndex' = p.historyIndex
    /\ editText' = [id \in Ids(p.nodes) |-> IF id \in Ids(nodes) THEN TextIn(editText, id)
                                                               ELSE TextIn(p.text, id)]
    /\ isEditing' = isEditing \cap Ids(p.nodes)
    /\ autoSizeMode' = Kept(autoSizeMode, nodes, p.nodes)
    /\ resizingState' = {r \in resizingState : r.id \in Ids(p.nodes) \cup Ids(p.annotations)}

(* The history effect's timer fires, 500 ms after the last change of the   *)
(* document: the timer is pending exactly when the document is not the     *)
(* snapshot at historyIndex, since undo, redo, import and clear leave the  *)
(* document equal to it and cancel the timer.                              *)
DebounceFires ==
    /\ CurrentState # HistoryAt(Project, historyIndex)
    /\ Len(history) < MaxHistory
    /\ \E p \in {record(Project, CurrentState)} :
          /\ history' = p.history
          /\ historyIndex' = p.historyIndex
    /\ UNCHANGED <<docVars, selVars, snapToGrid, autoConnect, contextMenu, projectVars, textVars>>
    /\ UNCHANGED <<panVars, connectVars, selectionBox, dragVars, resizeVars>>

(* The undo button or Ctrl+Z. *)
Undo ==
    /\ historyIndex > 0
    /\ ShowProject(handleUndo(Project))
    /\ UNCHANGED <<selVars, snapToGrid, autoConnect, contextMenu, projectVars>>
    /\ UNCHANGED <<panVars, connectVars, selectionBox, dragVars>>

(* The redo button or Ctrl+Y. *)
Redo ==
    /\ historyIndex < Len(history) - 1
    /\ ShowProject(handleRedo(Project))
    /\ UNCHANGED <<selVars, snapToGrid, autoConnect, contextMenu, projectVars>>
    /\ UNCHANGED <<panVars, connectVars, selectionBox, dragVars>>

(* App.handleClear, confirmed by the user. *)
Clear ==
    /\ ShowProject(ProjectRec(<<Snapshot(<<>>, <<>>, <<>>, EmptyMap)>>, 0, <<>>, <<>>, <<>>, EmptyMap))
    /\ selectedNodeIds' = {}
    /\ selectedEdgeId' = None
    /\ selectedAnnotationIds' = {}
    /\ UNCHANGED <<snapToGrid, autoConnect, contextMenu, projectVars>>
    /\ UNCHANGED <<panVars, connectVars, selectionBox, dragVars>>

(* The files offered to import while the history is explored. *)
WidthOnlyNode ==
    JObj([id |-> IdC, type |-> JStr("process", <<>>), position |-> RawPos(JNum(200), JNum(200)),
          width |-> JNum(200)])

HistoryFiles ==
    { JObj([nodes |-> JArr(ns), edges |-> JArr(<<>>), annotations |-> JUndef]) :
        ns \in UpTo({n \in RawNodes : Field(n, "width") # JUndef} \cup {WidthOnlyNode}, 1) }

HistoryDeleteInputs == { "B", "D" }

NextHistory ==
    \/ \E nodeId \in HistoryDeleteInputs : NoDown /\ DeleteNodeClick(nodeId)
    \/ \E edgeId \in Ids(edges) : NoDown /\ EdgeClick(edgeId)
    \/ \E edgeId \in Ids(edges) : NoDown /\ DeleteEdgeClick(edgeId)
    \/ NoDown /\ DebounceFires
    \/ NoDown /\ Undo
    \/ NoDown /\ Redo
    \/ NoDown /\ Clear
    \/ \E data \in HistoryFiles : NoDown /\ Import(data)

SpecHistory == Init /\ [][NextHistory]_vars

(* C35: undo followed immediately by redo returns the document (shapes,    *)
(* edges, annotations) to exactly the content it had before the undo, at   *)
(* every moment at which undo can be issued, also when the latest edit has *)
(* not yet been recorded by the debounce timer.                            *)
C35_UndoRedoRestores ==
    [][Undo => \E p \in {handleRedo(Project')} :
                  Snapshot(p.nodes, p.edges, p.annotations, p.text) = CurrentState]_vars

(* The history is non-empty and historyIndex points into it. *)
HistoryWellFormed == Len(history) >= 1 /\ historyIndex \in 0..(Len(history) - 1)

(* The step drops every snapshot after historyIndex and appends the        *)
(* document as the last entry, to which historyIndex moves.                *)
TruncatesAndAppends ==
    /\ Len(history') = historyIndex + 2
    /\ \A k \in 1..(historyIndex + 1) : history'[k] = history[k]
    /\ Last(history') = CurrentState
    /\ historyIndex' = Len(history') - 1

(* C36: after any sequence of edits, debounce firings, undo, redo, import  *)
(* and clear, the history is non-empty and 0 <= historyIndex <= history    *)
(* length - 1; right after an undo or redo the document equals             *)
(* history[historyIndex]; and recording a new edit, after an undo too,     *)
(* drops every snapshot after historyIndex and appends the new one as the  *)
(* last entry.                                                             *)
C36_HistoryWellFormed ==
    [][/\ HistoryWellFormed /\ HistoryWellFormed'
       /\ (Undo \/ Redo => CurrentState' = HistoryAt(Project', historyIndex'))
       /\ (DebounceFires => TruncatesAndAppends)]_vars

(* A state right after an undo, the document being the snapshot at         *)
(* historyIndex with later snapshots behind it that a recording drops.     *)
C36_Witness ==
    /\ Len(history) = 3 /\ historyIndex = 1
    /\ CurrentState = history[2]
    /\ CurrentState # history[3]

(* ---------------------------------------------------------------------- *)
(* Projects and tabs.                                                      *)
(* ---------------------------------------------------------------------- *)
MaxProjects == 3

(* createNewProject: id = `project-${Date.now()}` *)
ProjectId(time) == <<"project", time>>

(* The project state the handlers read and write. *)
Workspace == [projects |-> projects, openProjectIds |-> openProjectIds,
              activeProjectId |-> activeProjectId]

(* array[index], undefined past the end; index counts from 0. *)
At(s, index) == IF index + 1 \in DOMAIN s THEN Some(s[index + 1]) ELSE None

(* array.indexOf(id) and array.findIndex(x => x === id): -1 when absent. *)
IndexOfId(s, id) ==
    IF \E i \in DOMAIN s : s[i] = id
    THEN (CHOOSE i \in DOMAIN s : s[i] = id /\ \A j \in 1..(i - 1) : s[j] # id) - 1
    ELSE 0 - 1

Without(s, id) == SelectSeq(s, LAMBDA x : x # id)

Max0(n) == IF n > 0 THEN n ELSE 0

(* a ?? b ?? null, and a || b || null on ids, none of which is empty. *)
FirstOf(a, b) == IF IsSome(a) THEN a ELSE b

(* App.handleAddProject *)
handleAddProject(w, time) ==
    [projects |-> Append(w.projects, ProjectId(time)),
     openProjectIds |-> Append(w.openProjectIds, ProjectId(time)),
     activeProjectId |-> Some(ProjectId(time))]

(* The tab to the left of the closed one, else the first one, else none. *)
NeighbourOf(openIds, newOpenIds, id) ==
    FirstOf(At(newOpenIds, Max0(IndexOfId(openIds, id) - 1)), At(newOpenIds, 0))

(* A close that leaves the tab bar empty when the last tab is closed. *)
closeWithoutFallback(w, idToClose) ==
    [w EXCEPT !.openProjectIds = Without(w.openProjectIds, idToClose),
              !.activeProjectId =
                  IF w.activeProjectId = Some(idToClose)
                  THEN NeighbourOf(w.openProjectIds, Without(w.openProjectIds, idToClose), idToClose)
                  ELSE w.activeProjectId]

(* App.handleCloseProject *)
handleCloseProject(w, idToClose) ==
    IF Len(Without(w.openProjectIds, idToClose)) = 0 /\ Len(w.projects) > 0
    THEN [w EXCEPT !.openProjectIds = <<w.projects[1]>>, !.activeProjectId = Some(w.projects[1])]
    ELSE [w EXCEPT !.openProjectIds = Without(w.openProjectIds, idToClose),
                   !.activeProjectId =
                       IF w.activeProjectId = Some(idToClose)
                       THEN NeighbourOf(w.openProjectIds, Without(w.openProjectIds, idToClose),
                                        idToClose)
                       ELSE w.activeProjectId]

(* App.handleOpenProject *)
handleOpenProject(w, idToOpen) ==
    [w EXCEPT !.openProjectIds = IF \E i \in DOMAIN w.openProjectIds : w.openProjectIds[i] = idToOpen
                                 THEN w.openProjectIds
                                 ELSE Append(w.openProjectIds, idToOpen),
              !.activeProjectId = Some(idToOpen)]

(* App.handleDeleteProject, confirmed by the user; time is Date.now() of   *)
(* the project created when none is left.                                  *)
handleDeleteProject(w, idToDelete, time) ==
    IF Len(Without(w.projects, idToDelete)) = 0
    THEN [projects |-> <<ProjectId(time)>>, openProjectIds |-> <<ProjectId(time)>>,
          activeProjectId |-> Some(ProjectId(time))]
    ELSE IF w.activeProjectId # Some(idToDelete)
    THEN [w EXCEPT !.projects = Without(w.projects, idToDelete),
                   !.openProjectIds = Without(w.openProjectIds, idToDelete)]
    ELSE IF NeighbourOf(w.openProjectIds, Without(w.openProjectIds, idToDelete), idToDelete) = None
    THEN [projects |-> Without(w.projects, idToDelete),
          openProjectIds |-> <<Without(w.projects, idToDelete)[1]>>,
          activeProjectId |-> Some(Without(w.projects, idToDelete)[1])]
    ELSE [projects |-> Without(w.projects, idToDelete),
          openProjectIds |-> Without(w.openProjectIds, idToDelete),
          activeProjectId |-> NeighbourOf(w.openProjectIds, Without(w.openProjectIds, idToDelete),
                                          idToDelete)]

(* Every project has the content createNewProject gives it, the active one *)
(* included: the project handlers are explored on such projects, so that   *)
(* the document shown after a change of the active project is the one      *)
(* shown before.                                                           *)
AllProjectsNew ==
    /\ CurrentState = Snapshot(<<>>, <<>>, <<>>, EmptyMap)
    /\ history = <<CurrentState>>

(* The render after a project handler left the project state w. *)
ShowWorkspace(w) ==
    /\ AllProjectsNew
    /\ projects' = w.projects
    /\ openProjectIds' = w.openProjectIds
    /\ activeProjectId' = w.activeProjectId
    /\ UNCHANGED <<docVars, snapToGrid, autoConnect, contextMenu, historyVars, textVars>>
    /\ UNCHANGED <<panVars, connectVars, selectionBox, dragVars, resizeVars>>

(* The + button of the tab bar. *)
AddProject(time) ==
    /\ Len(projects) < MaxProjects
    /\ ShowWorkspace(handleAddProject(Workspace, time))
    /\ UNCHANGED selVars

(* The close button of a tab. *)
CloseProject(idToClose) == ShowWorkspace(handleCloseProject(Workspace, idToClose)) /\ UNCHANGED selVars

(* The open button of the project manager. *)
OpenProject(idToOpen) == ShowWorkspace(handleOpenProject(Workspace, idToOpen)) /\ UNCHANGED selVars

(* The delete button of the project manager. *)
DeleteProject(idToDelete, time) ==
    ShowWorkspace(handleDeleteProject(Workspace, idToDelete, time)) /\ UNCHANGED selVars

(* A click on a tab: App.onSelectProject. *)
SelectProject(id) ==
    /\ ShowWorkspace([Workspace EXCEPT !.activeProjectId = Some(id)])
    /\ selectedNodeIds' = {}
    /\ selectedAnnotationIds' = {}
    /\ selectedEdgeId' = None

SeqRange(s) == {s[i] : i \in DOMAIN s}

(* The editor as loadInitialData leaves it when nothing was saved. *)
InitProjects == InitDocument(<<>>, <<>>, <<>>, {})

NextProjects ==
    \/ \E time \in Times : NoDown /\ AddProject(time)
    \/ \E id \in SeqRange(openProjectIds) : NoDown /\ CloseProject(id)
    \/ \E id \in SeqRange(projects) : NoDown /\ OpenProject(id)
    \/ \E id \in SeqRange(projects), time \in Times : NoDown /\ DeleteProject(id, time)
    \/ \E id \in SeqRange(openProjectIds) : NoDown /\ SelectProject(id)

SpecProjects == InitProjects /\ [][NextProjects]_vars

(* C37: after any sequence of add, open, select, close and delete project  *)
(* operations, the project list is non-empty, the list of open tabs is     *)
(* non-empty and contains only ids of existing projects, and the active    *)
(* project id is the id of an existing project that is in the open tabs.   *)
C37_ActiveProjectIsOpen ==
    /\ Len(projects) >= 1
    /\ Len(openProjectIds) >= 1
    /\ SeqRange(openProjectIds) \subseteq SeqRange(projects)
    /\ IsSome(activeProjectId)
    /\ Get(activeProjectId) \in SeqRange(projects) \cap SeqRange(openProjectIds)

(* Three projects, the first of them no longer the one the editor started  *)
(* on and alone in the tab bar: the starting project was deleted and the   *)
(* tabs closed down to the fallback tab.                                   *)
C37_Witness ==
    /\ Len(projects) = MaxProjects
    /\ projects[1] # FirstProject
    /\ openProjectIds = <<projects[1]>>
    /\ activeProjectId = Some(projects[1])

(* The size a shape is drawn with: Node's width and height. *)
DrawnSize(node) == [width |-> NodeWidth(node), height |-> NodeHeight(node)]

(* Where the four connector handles of a shape are drawn, which is also    *)
(* the start of a connect gesture from each.                               *)
HandlePositions(node) ==
    [i \in 1..4 |-> AddPos(node.position, nodeConnectionPoint(node, i - 1).pos.x,
                           nodeConnectionPoint(node, i - 1).pos.y)]

(* C38: for every shape, one with only a width or only a height or no      *)
(* explicit size included, the same effective width and height are used    *)
(* everywhere: the anchor points of edge routing and snapping are where    *)
(* the connector handles are drawn and connect gestures start, and the     *)
(* pointer-up hit test and the dragged shape's centre of the splice test   *)
(* use that same size.                                                     *)
C38_SameSizeEverywhere ==
    \A i \in DOMAIN nodes :
        ~IsNaN(nodes[i].position)
        => /\ getConnectionPoints(nodes[i]) = HandlePositions(nodes[i])
           /\ HitSize(nodes[i]) = DrawnSize(nodes[i])
           /\ DragSize(nodes[i]) = DrawnSize(nodes[i])

(* ---------------------------------------------------------------------- *)
(* The text editor of a shape.                                             *)
(* ---------------------------------------------------------------------- *)

(* Node.handleTextBlur: onTextChange(data.id, editText), App.updateNodeText *)
handleTextBlur(texts, edits, id) == (id :> TextIn(edits, id)) @@ texts

TextFrame ==
    /\ UNCHANGED <<edges, annotations, selVars, snapToGrid, autoConnect, contextMenu>>
    /\ UNCHANGED <<historyVars, projectVars, panVars, connectVars, selectionBox, dragVars,
                   resizingState>>

(* Node.handleDoubleClick *)
DoubleClick(id) ==
    /\ IsSome(Find(nodes, id))
    /\ isEditing' = isEditing \cup {id}
    /\ UNCHANGED <<nodes, nodeText, editText, autoSizeMode>>
    /\ TextFrame

(* Node.handleTextChange: the editor's content becomes text. *)
Type(id, text) ==
    /\ id \in isEditing
    /\ editText' = (id :> text) @@ editText
    /\ UNCHANGED <<nodes, nodeText, isEditing, autoSizeMode>>
    /\ TextFrame

(* Blur, or Enter without shift: Node.handleTextBlur, then the layout      *)
(* effect for the text committed.                                          *)
Commit(id, measure) ==
    /\ id \in isEditing
    /\ IsSome(Find(nodes, id))
    /\ nodeText' = handleTextBlur(nodeText, editText, id)
    /\ isEditing' = isEditing \ {id}
    /\ \E node \in {Get(Find(nodes, id))} :
          /\ nodes' = autoSizeEffect(nodes, node, AutoSizeModeOf(node), measure)
          /\ autoSizeMode' = (id :> AutoSizeModeOf(node)) @@ autoSizeMode
    /\ UNCHANGED editText
    /\ TextFrame

(* Escape in the editor: setEditText(data.text); setIsEditing(false) *)
Escape(id) ==
    /\ id \in isEditing
    /\ editText' = (id :> TextIn(nodeText, id)) @@ editText
    /\ isEditing' = isEditing \ {id}
    /\ UNCHANGED <<nodes, nodeText, autoSizeMode>>
    /\ TextFrame

Texts == { "a", "b" }
TextInputs == { "A", "B" }
TextMeasures == { [naturalWidth |-> 60, wrappedHeight |-> 30] }

NextText ==
    \/ \E id \in TextInputs : NoDown /\ DoubleClick(id)
    \/ \E id \in TextInputs, text \in Texts : NoDown /\ Type(id, text)
    \/ \E id \in TextInputs, measure \in TextMeasures : NoDown /\ Commit(id, measure)
    \/ \E id \in TextInputs : NoDown /\ Escape(id)
    \/ NoDown /\ DebounceFires
    \/ NoDown /\ Undo
    \/ NoDown /\ Redo

SpecText == Init /\ [][NextText]_vars

(* C39: opening a shape's text editor and committing it (blur or Enter)    *)
(* without typing leaves the shape's text unchanged, and Escape leaves it  *)
(* unchanged after any typing, also when the text was last changed from    *)
(* outside the editor, by undo or redo: a commit right after the double    *)
(* click writes the text the shape has, and an Escape step changes no      *)
(* text.                                                                   *)
C39_EditorKeepsText ==
    [][\A id \in TextInputs :
          /\ DoubleClick(id) => handleTextBlur(nodeText', editText', id) = (id :> TextIn(nodeText', id)) @@ nodeText'
          /\ Escape(id) => nodeText' = nodeText]_vars

(* ---------------------------------------------------------------------- *)
(* Splicing into a crowded edge: documents of an edge S -> T, T at or near *)
(* S, and a third shape D dragged over the edge.                           *)
(* ---------------------------------------------------------------------- *)
CrowdedTargets == { <<0, 0>>, <<100, 0>>, <<0, 100>>, <<-60, 80>>, <<200, 0>>, <<260, 0>> }

CrowdedNodes(p) ==
    << NodeRec("S", "process", 0, 0, 150, 70), NodeRec("T", "process", p[1], p[2], 150, 70),
       NodeRec("D", "process", 0, 300, 150, 70) >>

InitCrowded ==
    \E p \in CrowdedTargets :
        InitDocument(CrowdedNodes(p), << EdgeRec("e-S-T-0", "S", "T", None, None, None) >>, << >>, {})

CrowdedDownEvents == { Ev(40, 320, 0, FALSE, FALSE) }
CrowdedMoveEvents == { Ev(px, py, 0, FALSE, FALSE) : px \in {40, 90, 140, 200}, py \in {-20, 20, 70, 110} }

NextCrowded ==
    \/ \E e \in CrowdedDownEvents : CountDown /\ NodeMouseDown(e)
    \/ \E e \in CrowdedMoveEvents : NoDown /\ MouseMove(e)
    \/ \E e \in CrowdedMoveEvents, time \in Times : NoDown /\ MouseUp(e, time)
    \/ NoDown /\ ToggleSnapToGrid

SpecCrowded == InitCrowded /\ [][NextCrowded]_vars

(* The shape named by the displacement record. *)
DisplacedShape(ns, info) == Get(Find(ns, Get(info).nodeId))

(* C40: activating a splice target never gives a shape a non-finite        *)
(* position: the displaced far-endpoint shape's new coordinates are finite *)
(* for every pair of endpoint positions closer than the crowded threshold  *)
(* 250, also when source and target have the same position.               *)
C40_DisplacedPositionFinite ==
    [][(displacedNodeInfo' # displacedNodeInfo /\ IsSome(displacedNodeInfo'))
       => ~IsNaN(DisplacedShape(nodes', displacedNodeInfo').position)]_vars
====
